---------------------------- MODULE Spec2Model ----------------------------
(* Model of smc-lib (src/smc-lib/src/io.rs, structs.rs, value.rs): the SMC *)
(* key protocol engine IOService, its enumerator ValIter and the typed     *)
(* decoder of SMCVal; and of the three commands of smc-cli                 *)
(* (src/smc-cli/src/func.rs) as holders of an IOService.                   *)
(*                                                                         *)
(* IOService holds only the connection; every public method is a blocking  *)
(* call that performs one to three round trips through smc_call.  Each     *)
(* method is one action.  What the far side answers to a round trip is the *)
(* method's input: it is drawn from the response sets below, one response  *)
(* per round trip the method may perform.  `last` records the requests the *)
(* most recent call sent, the responses it consumed and what it returned.  *)
EXTENDS Integers, Sequences, FiniteSets, TLC

VARIABLES
    iters,   \* the ValIter objects: [IterIds -> alive/total_count/current]
    drift,   \* per enumerator: has keys_count since reported another count?
    last,    \* the most recent call: its requests, responses and result
    list,    \* the progress of a list_all_values call (its for loop)
    engine,  \* the connection of the IOService and the caller that holds it
    dec,     \* a value under SMCVal::data_value: its tag, payload and result
    threads, \* the threads that share one &IOService: where each one stands
    channel, \* the round trips in flight on the connection, in order of arrival
    smc,     \* the far side: the state of the channel and what it holds per key
    asked    \* the get_key_info calls made so far and what the latest returned

vars == <<iters, drift, last, list, engine, dec, threads, channel, smc, asked>>

----------------------------------------------------------------------------
(* Bounds of the model.                                                    *)

\* The largest key count the far side reports to values_iter/list_all_values.
MaxKeys == 2

\* The number of times a command of smc-cli is run, one after the other.
MaxRuns == 2

----------------------------------------------------------------------------
(* Program constants.                                                      *)

KERNEL_INDEX_SMC == 2
SMC_CMD_READ_BYTES == 5
SMC_CMD_READ_INDEX == 8
SMC_CMD_READ_KEYINFO == 9
SMC_CMD_WRITE_BYTES == 6
SMC_BYTES_LEN == 32

KERN_SUCCESS == 0
KERN_INVALID_ARGUMENT == 4
KERN_FAILURE == 5
KERN_NOT_SUPPORTED == 46
\* result value of a KEYINFO response that get_key_info_inner rejects
RESULT_NOT_SUPPORTED == 132
\* the channel status the repository's test expects for an unprivileged write
PRIVILEGE_ERROR == -536870207

----------------------------------------------------------------------------
(* Bytes and integer conversions.                                          *)

\* u32::from_be_bytes
FromBeBytes(b) == b[1] * 16777216 + b[2] * 65536 + b[3] * 256 + b[4]

\* u32::from_le_bytes, used only to state how a byte-order slip would read
FromLeBytes(b) == b[1] + b[2] * 256 + b[3] * 65536 + b[4] * 16777216

\* u32::to_be_bytes
ToBeBytes(n) ==
    << (n \div 16777216) % 256, (n \div 65536) % 256, (n \div 256) % 256, n % 256 >>

\* SMCBytes::default(): 32 zero bytes
ZeroBytes == [i \in 1..SMC_BYTES_LEN |-> 0]

\* io.rs:314-315 over a buffer that was not zeroed
PadBytes_Dirty(value) ==
    [i \in 1..SMC_BYTES_LEN |-> IF i <= Len(value) THEN value[i] ELSE 255]

\* write_bytes[..val_len].copy_from_slice(value) on a zeroed SMCBytes
PadBytes(value) ==
    [i \in 1..SMC_BYTES_LEN |-> IF i <= Len(value) THEN value[i] ELSE 0]

\* the reserved key b"#KEY"
KEY_COUNT == <<35, 75, 69, 89>>
\* b"ABCD"
KEY_ABCD == <<65, 66, 67, 68>>

\* type tags b"ui32", b"ui8 " and b"ch8*"
TAG_UI32 == <<117, 105, 51, 50>>
TAG_UI8 == <<117, 105, 56, 32>>
TAG_CH8 == <<99, 104, 56, 42>>

----------------------------------------------------------------------------
(* The wire record SMCKeyData and the caller-facing SMCVal.                *)

DefaultKeyInfo == [data_size |-> 0, data_type |-> 0, data_attributes |-> 0]

DefaultKeyData ==
    [ key |-> 0, vers |-> 0, plimit_data |-> 0, key_info |-> DefaultKeyInfo,
      result |-> 0, status |-> 0, data8 |-> 0, data32 |-> 0, bytes |-> ZeroBytes ]

DefaultVal ==
    [ key |-> <<0, 0, 0, 0>>, data_size |-> 0, data_type |-> <<0, 0, 0, 0>>,
      bytes |-> ZeroBytes ]

\* Option<u32>
NoneOpt == [some |-> FALSE, v |-> 0]
SomeOpt(x) == [some |-> TRUE, v |-> x]

\* ValError::default()
DefaultValError ==
    [ err_code |-> 0, index |-> 0, key |-> NoneOpt, data_size |-> NoneOpt,
      data_type |-> NoneOpt ]

\* Result values
Ok(v) == [tag |-> "Ok", err |-> 0, val |-> v]
Err(e) == [tag |-> "Err", err |-> e, val |-> <<>>]


----------------------------------------------------------------------------
(* The channel.  IOConnectCallStructMethod is external: a round trip ends  *)
(* with a status and, on success, a response record.  A response is        *)
(* [status, out].  The sets below are the answers the model lets the far   *)
(* side give to each opcode; they do not depend on the request.            *)

\* non-success statuses of the channel call
ChannelErrors == {PRIVILEGE_ERROR, PRIVILEGE_ERROR - 5}

\* key metadata the far side may report
KeyInfos ==
    { [data_size |-> 4, data_type |-> FromBeBytes(TAG_UI32), data_attributes |-> 192],
      [data_size |-> 1, data_type |-> FromBeBytes(TAG_UI8), data_attributes |-> 128] }

\* metadata that declares more bytes than an SMCBytes holds: data_size is a
\* u32 the engine takes as reported (value.rs:69-72 allows for it)
OversizeKeyInfo ==
    [ data_size |-> SMC_BYTES_LEN + 1, data_type |-> FromBeBytes(TAG_CH8),
      data_attributes |-> 128 ]

\* values of the result byte the far side may set
KeyInfoResults == {0, RESULT_NOT_SUPPORTED, RESULT_NOT_SUPPORTED + 1}
WriteResults == {0, RESULT_NOT_SUPPORTED}

\* keys the far side may name for an index; the table of a real SMC lists #KEY
Keys == {KEY_COUNT, KEY_ABCD}

\* a payload whose first four bytes are a small big-endian count
CountPayload(n) == [i \in 1..SMC_BYTES_LEN |-> IF i = 4 THEN n ELSE 0]
\* a payload with no zero in its first bytes and a non-zero tail
MixedPayload == [i \in 1..SMC_BYTES_LEN |-> IF i <= 4 THEN i ELSE 7]
Payloads == {CountPayload(n) : n \in 0..MaxKeys} \cup {MixedPayload}

FailedResponses == {[status |-> e, out |-> DefaultKeyData] : e \in ChannelErrors}

KeyInfoResponses ==
    { [status |-> KERN_SUCCESS,
       out |-> [DefaultKeyData EXCEPT !.key_info = ki, !.result = r]] :
         ki \in KeyInfos, r \in KeyInfoResults }
    \cup FailedResponses

\* the same, and the answer that declares more bytes than an SMCBytes holds;
\* the calls on single keys are explored with these
AnyKeyInfoResponses ==
    KeyInfoResponses
    \cup { [status |-> KERN_SUCCESS,
            out |-> [DefaultKeyData EXCEPT !.key_info = OversizeKeyInfo]] }

\* every payload with result 0, and one answer whose result is the sentinel
ReadBytesResponses ==
    { [status |-> KERN_SUCCESS, out |-> [DefaultKeyData EXCEPT !.bytes = p]] :
         p \in Payloads }
    \cup { [status |-> KERN_SUCCESS,
            out |-> [DefaultKeyData EXCEPT !.bytes = MixedPayload,
                                           !.result = RESULT_NOT_SUPPORTED]] }
    \cup FailedResponses

WriteBytesResponses ==
    { [status |-> KERN_SUCCESS, out |-> [DefaultKeyData EXCEPT !.result = r]] :
         r \in WriteResults }
    \cup FailedResponses

\* every key with result 0, and one answer whose result is the sentinel
ReadIndexResponses ==
    { [status |-> KERN_SUCCESS,
       out |-> [DefaultKeyData EXCEPT !.key = FromBeBytes(k)]] : k \in Keys }
    \cup { [status |-> KERN_SUCCESS,
            out |-> [DefaultKeyData EXCEPT !.key = FromBeBytes(KEY_ABCD),
                                           !.result = RESULT_NOT_SUPPORTED]] }
    \cup FailedResponses

\* io.rs:223-227 with a slip: every failed round trip is reported as the
\* generic failure code instead of the status the channel returned
smc_call_Flatten(selector, input_struct, output_struct, resp) ==
    IF resp.status = KERN_SUCCESS
    THEN [res |-> Ok(<<>>), output |-> resp.out, req |-> input_struct, sel |-> selector]
    ELSE [res |-> Err(KERN_FAILURE), output |-> output_struct, req |-> input_struct,
          sel |-> selector]

\* io.rs:223-227 with a slip: the sentinel test of get_key_info_inner applied
\* to the response of every round trip
smc_call_Inspecting(selector, input_struct, output_struct, resp) ==
    IF resp.status = KERN_SUCCESS /\ resp.out.result # RESULT_NOT_SUPPORTED
    THEN [res |-> Ok(<<>>), output |-> resp.out, req |-> input_struct, sel |-> selector]
    ELSE [res |-> Err(IF resp.status = KERN_SUCCESS THEN KERN_NOT_SUPPORTED
                      ELSE resp.status),
          output |-> output_struct, req |-> input_struct, sel |-> selector]

\* smc_call: one round trip.  On success the kernel fills output_struct; on
\* failure the status is returned as the error and output_struct is left alone.
smc_call(selector, input_struct, output_struct, resp) ==
    IF resp.status = KERN_SUCCESS
    THEN [res |-> Ok(<<>>), output |-> resp.out, req |-> input_struct, sel |-> selector]
    ELSE [res |-> Err(resp.status), output |-> output_struct, req |-> input_struct,
          sel |-> selector]

\* a response that stands in the places of a script no round trip reaches
Filler == [status |-> PRIVILEGE_ERROR, out |-> DefaultKeyData]

\* a script of responses, filled up to the three round trips a call may make
Pad(s) == s \o [i \in 1..(3 - Len(s)) |-> Filler]

\* the scripts of S, each extended by a response of R when the call F performs
\* a further round trip after consuming it
Extend(F(_), S, R) ==
    UNION { IF Len(F(Pad(s)).reqs) > Len(s) THEN {Append(s, r) : r \in R} ELSE {s} :
              s \in S }

\* every sequence of responses the call F can consume, when its first, second
\* and third round trips are answered from R1, R2 and R3
Scripts(F(_), R1, R2, R3) == Extend(F, Extend(F, Extend(F, {<<>>}, R1), R2), R3)

----------------------------------------------------------------------------
(* The far side as a device.  Where two calls are compared, the answers    *)
(* are those of one device: it holds the state of the channel and, per     *)
(* key, the metadata, the result byte and the payload, and it answers a    *)
(* request from what it holds.  KEYINFO and READ_BYTES leave it as it is,  *)
(* WRITE_BYTES stores the payload of the request.                          *)

\* what the device holds at first: a 4-byte "#KEY" and a 1-byte "ABCD"
FarSide ==
    [ status |-> KERN_SUCCESS,
      keys |-> [ k \in Keys |->
                   IF k = KEY_COUNT
                   THEN [ info |-> [data_size |-> 4, data_type |-> FromBeBytes(TAG_UI32),
                                    data_attributes |-> 192],
                          result |-> 0, bytes |-> CountPayload(MaxKeys) ]
                   ELSE [ info |-> [data_size |-> 1, data_type |-> FromBeBytes(TAG_UI8),
                                    data_attributes |-> 128],
                          result |-> 0, bytes |-> ZeroBytes ] ] ]

\* the response of the device to one request
Answer(dev, req) ==
    IF dev.status # KERN_SUCCESS THEN [status |-> dev.status, out |-> DefaultKeyData]
    ELSE LET e == dev.keys[ToBeBytes(req.key)]
         IN  [ status |-> KERN_SUCCESS,
               out |-> IF req.data8 = SMC_CMD_READ_KEYINFO
                       THEN [DefaultKeyData EXCEPT !.key_info = e.info, !.result = e.result]
                       ELSE IF req.data8 = SMC_CMD_READ_BYTES
                       THEN [DefaultKeyData EXCEPT !.bytes = e.bytes]
                       ELSE DefaultKeyData ]

\* the device after one request
Stored(dev, req) ==
    IF dev.status = KERN_SUCCESS /\ req.data8 = SMC_CMD_WRITE_BYTES
    THEN [dev EXCEPT !.keys[ToBeBytes(req.key)].bytes = req.bytes]
    ELSE dev

\* the device after the requests of one call, in the order they were sent
RECURSIVE After(_, _)
After(dev, reqs) ==
    IF reqs = <<>> THEN dev ELSE After(Stored(dev, Head(reqs)), Tail(reqs))

\* the script rs, extended by the answer of the device when the call F
\* performs a further round trip after consuming it
Serve(F(_), dev, rs) ==
    IF Len(F(Pad(rs)).reqs) > Len(rs)
    THEN Append(rs, Answer(After(dev, SubSeq(F(Pad(rs)).reqs, 1, Len(rs))),
                           F(Pad(rs)).reqs[Len(rs) + 1]))
    ELSE rs

\* the responses the call F consumes when the device answers its round trips
Served(F(_), dev) == Serve(F, dev, Serve(F, dev, Serve(F, dev, <<>>)))

----------------------------------------------------------------------------
(* The engine's private helpers.  Each returns the records as the call     *)
(* leaves them (input, output), the requests it sent (reqs) and its        *)
(* result (res).                                                           *)

\* io.rs:148, the sentinel test with a slip: every result from 132 up rejects
IsNotSupported_Range(output_struct) == output_struct.result >= RESULT_NOT_SUPPORTED

\* io.rs:148
IsNotSupported(output_struct) == output_struct.result = RESULT_NOT_SUPPORTED

get_key_info_inner(input_struct, output_struct, resp) ==
    LET in1 == [input_struct EXCEPT !.data8 = SMC_CMD_READ_KEYINFO]
        call == smc_call(KERNEL_INDEX_SMC, in1, output_struct, resp)
    IN  [ input |-> in1, output |-> call.output, reqs |-> <<call.req>>,
          res |-> IF call.res.tag = "Err" THEN call.res
                  ELSE IF IsNotSupported(call.output) THEN Err(KERN_NOT_SUPPORTED)
                  ELSE Ok(<<>>) ]

\* io.rs:160-165 with a slip: the value takes its data_size and data_type
\* from the request record, that is from before the KEYINFO round trip
read_key_with_info_FromRequest(input_struct, output_struct, resp) ==
    LET val == [DefaultVal EXCEPT
                  !.key = ToBeBytes(input_struct.key),
                  !.data_size = input_struct.key_info.data_size,
                  !.data_type = ToBeBytes(input_struct.key_info.data_type)]
        in1 == [input_struct EXCEPT
                  !.key_info.data_size = output_struct.key_info.data_size,
                  !.key_info.data_type = output_struct.key_info.data_type,
                  !.data8 = SMC_CMD_READ_BYTES]
        call == smc_call(KERNEL_INDEX_SMC, in1, output_struct, resp)
    IN  [ input |-> in1, output |-> call.output, reqs |-> <<call.req>>,
          res |-> IF call.res.tag = "Err" THEN call.res
                  ELSE Ok([val EXCEPT !.bytes = call.output.bytes]) ]

read_key_with_info(input_struct, output_struct, resp) ==
    LET val == [DefaultVal EXCEPT
                  !.key = ToBeBytes(input_struct.key),
                  !.data_size = output_struct.key_info.data_size,
                  !.data_type = ToBeBytes(output_struct.key_info.data_type)]
        in1 == [input_struct EXCEPT
                  !.key_info.data_size = output_struct.key_info.data_size,
                  !.key_info.data_type = output_struct.key_info.data_type,
                  !.data8 = SMC_CMD_READ_BYTES]
        call == smc_call(KERNEL_INDEX_SMC, in1, output_struct, resp)
    IN  [ input |-> in1, output |-> call.output, reqs |-> <<call.req>>,
          res |-> IF call.res.tag = "Err" THEN call.res
                  ELSE Ok([val EXCEPT !.bytes = call.output.bytes]) ]

----------------------------------------------------------------------------
(* The public operations as functions of their arguments and of the        *)
(* responses rs[1], rs[2], ... to the round trips they perform, in order.  *)

\* io.rs:204 with a slip: the key_info of the request record is returned
\* instead of the one the far side filled in
get_key_info_OfRequest(key, rs) ==
    LET in0 == [DefaultKeyData EXCEPT !.key = FromBeBytes(key)]
        g == get_key_info_inner(in0, DefaultKeyData, rs[1])
    IN  [ reqs |-> g.reqs,
          res |-> IF g.res.tag = "Err" THEN g.res ELSE Ok(g.input.key_info) ]

\* io.rs:198-204 with a slip: the output record is kept between the calls
\* and the metadata is taken from it before the round trip has filled it
get_key_info_Lagging(key, rs) ==
    LET in0 == [DefaultKeyData EXCEPT !.key = FromBeBytes(key)]
        g == get_key_info_inner(in0, DefaultKeyData, rs[1])
        kept == IF last.op = "get_key_info" /\ last.res.tag = "Ok"
                THEN last.resps[1].out.key_info
                ELSE DefaultKeyInfo
    IN  [ reqs |-> g.reqs,
          res |-> IF g.res.tag = "Err" THEN g.res ELSE Ok(kept) ]

get_key_info(key, rs) ==
    LET in0 == [DefaultKeyData EXCEPT !.key = FromBeBytes(key)]
        g == get_key_info_inner(in0, DefaultKeyData, rs[1])
    IN  [ reqs |-> g.reqs,
          res |-> IF g.res.tag = "Err" THEN g.res ELSE Ok(g.output.key_info) ]

\* io.rs:260-269 with a slip: the error of get_key_info_inner is kept for the
\* return but READ_BYTES is sent all the same
read_key_Eager(key, rs) ==
    LET in0 == [DefaultKeyData EXCEPT !.key = FromBeBytes(key)]
        g == get_key_info_inner(in0, DefaultKeyData, rs[1])
        in1 == [g.input EXCEPT
                  !.key_info.data_size = g.output.key_info.data_size,
                  !.data8 = SMC_CMD_READ_BYTES]
        call == smc_call(KERNEL_INDEX_SMC, in1, g.output, rs[2])
        val == [DefaultVal EXCEPT
                  !.key = key,
                  !.data_size = g.output.key_info.data_size,
                  !.data_type = ToBeBytes(g.output.key_info.data_type),
                  !.bytes = call.output.bytes]
    IN  [ reqs |-> g.reqs \o <<call.req>>,
          res |-> IF g.res.tag = "Err" THEN g.res
                  ELSE IF call.res.tag = "Err" THEN call.res ELSE Ok(val) ]

read_key(key, rs) ==
    LET in0 == [DefaultKeyData EXCEPT !.key = FromBeBytes(key)]
        g == get_key_info_inner(in0, DefaultKeyData, rs[1])
        val == [DefaultVal EXCEPT
                  !.key = key,
                  !.data_size = g.output.key_info.data_size,
                  !.data_type = ToBeBytes(g.output.key_info.data_type)]
        in1 == [g.input EXCEPT
                  !.key_info.data_size = g.output.key_info.data_size,
                  !.data8 = SMC_CMD_READ_BYTES]
        call == smc_call(KERNEL_INDEX_SMC, in1, g.output, rs[2])
    IN  IF g.res.tag = "Err" THEN [reqs |-> g.reqs, res |-> g.res]
        ELSE [ reqs |-> g.reqs \o <<call.req>>,
               res |-> IF call.res.tag = "Err" THEN call.res
                       ELSE Ok([val EXCEPT !.bytes = call.output.bytes]) ]

\* io.rs:311, the length test with a slip: one byte too many gets through
TooLong_OffByOne(val_len) == val_len > SMC_BYTES_LEN + 1

\* io.rs:311
TooLong(val_len) == val_len > SMC_BYTES_LEN

\* io.rs:318, the size test with a slip: the comparison is inverted
SizeMismatch_Inverted(read_val, val_len) == read_val.data_size = val_len

\* io.rs:318, the size test with a slip: a short payload gets through
SizeMismatch_ShortOk(read_val, val_len) == read_val.data_size < val_len

\* io.rs:318
SizeMismatch(read_val, val_len) == read_val.data_size # val_len

write_key(key, value, rs) ==
    LET val_len == Len(value)
        write_bytes == PadBytes(value)
        r == read_key(key, rs)
        in0 == [DefaultKeyData EXCEPT
                  !.key = FromBeBytes(key),
                  !.data8 = SMC_CMD_WRITE_BYTES,
                  !.key_info.data_size = val_len,
                  !.bytes = write_bytes]
        call == smc_call(KERNEL_INDEX_SMC, in0, DefaultKeyData, rs[3])
    IN  IF TooLong(val_len) THEN [reqs |-> <<>>, res |-> Err(KERN_INVALID_ARGUMENT)]
        ELSE IF r.res.tag = "Err" THEN [reqs |-> r.reqs, res |-> r.res]
        ELSE IF SizeMismatch(r.res.val, val_len)
             THEN [reqs |-> r.reqs, res |-> Err(KERN_INVALID_ARGUMENT)]
        ELSE [ reqs |-> r.reqs \o <<call.req>>,
               res |-> IF call.res.tag = "Err" THEN call.res ELSE Ok(<<>>) ]

\* io.rs:357, the size requirement with a slip: any size up to 4 is accepted
CountSizeOk_AtMost(val) == val.data_size <= 4

\* io.rs:357
CountSizeOk(val) == val.data_size = 4

\* io.rs:358-360 with a slip: the four bytes read in little-endian order
CountOfBytes_LittleEndian(bytes) == FromLeBytes(SubSeq(bytes, 1, 4))

\* io.rs:358-360
CountOfBytes(bytes) == FromBeBytes(SubSeq(bytes, 1, 4))

keys_count(rs) ==
    LET r == read_key(KEY_COUNT, rs)
    IN  IF r.res.tag = "Err" THEN r
        ELSE IF CountSizeOk(r.res.val)
             THEN [reqs |-> r.reqs, res |-> Ok(CountOfBytes(r.res.val.bytes))]
        ELSE [reqs |-> r.reqs, res |-> Err(KERN_FAILURE)]

----------------------------------------------------------------------------
(* The enumerator ValIter.                                                 *)

\* the enumerators a caller may hold
IterIds == {"it1", "it2"}

\* an enumerator that has not been constructed; `yielded` counts the items
\* (Ok and Err) the enumerator has handed out
NoIter == [alive |-> FALSE, total_count |-> 0, current |-> 0, yielded |-> 0]

\* io.rs:435 with a slip: a failed keys_count is taken as a count of zero
\* instead of being returned
values_iter_Lenient(rs) ==
    LET k == keys_count(rs)
    IN  [ reqs |-> k.reqs, res |-> k.res,
          iter |-> [alive |-> TRUE, current |-> 0, yielded |-> 0,
                    total_count |-> IF k.res.tag = "Err" THEN 0 ELSE k.res.val] ]

values_iter(rs) ==
    LET k == keys_count(rs)
    IN  IF k.res.tag = "Err" THEN [reqs |-> k.reqs, res |-> k.res, iter |-> NoIter]
        ELSE [ reqs |-> k.reqs, res |-> Ok(<<>>),
               iter |-> [alive |-> TRUE, total_count |-> k.res.val, current |-> 0,
                         yielded |-> 0] ]

\* io.rs:482 with a slip: the cursor moves on by two
AdvanceCursor_Double(current) == current + 2

\* io.rs:482 with a slip: the cursor is left where it was
AdvanceCursor_Stuck(current) == current

\* io.rs:482
AdvanceCursor(current) == current + 1

\* io.rs:493-497
IndexError(err_code, current) ==
    [DefaultValError EXCEPT !.err_code = err_code, !.index = current]

\* io.rs:506-511 with a slip: the stale key_info of the request is reported
KeyInfoError_WithInfo(err_code, current, input_struct) ==
    [DefaultValError EXCEPT !.err_code = err_code, !.index = current,
                            !.key = SomeOpt(input_struct.key),
                            !.data_size = SomeOpt(input_struct.key_info.data_size),
                            !.data_type = SomeOpt(input_struct.key_info.data_type)]

\* io.rs:506-511
KeyInfoError(err_code, current, input_struct) ==
    [DefaultValError EXCEPT !.err_code = err_code, !.index = current,
                            !.key = SomeOpt(input_struct.key)]

\* io.rs:520-526
ReadBytesError(err_code, current, input_struct) ==
    [ err_code |-> err_code, index |-> current,
      key |-> SomeOpt(input_struct.key),
      data_size |-> SomeOpt(input_struct.key_info.data_size),
      data_type |-> SomeOpt(input_struct.key_info.data_type) ]

\* io.rs:480 with a slip: the cursor may reach beyond the count
HasMore_Inclusive(it) == it.current <= it.total_count

\* io.rs:480: self.current < self.total_count
HasMore(it) == it.current < it.total_count

\* Iterator::next.  res.tag is "None" at the end of the sequence, "Ok" for
\* Some(Ok(val)) and "Err" for Some(Err(val_error)).
next(it, rs) ==
    LET current == it.current
        it1 == [it EXCEPT !.current = AdvanceCursor(current),
                          !.yielded = it.yielded + 1]
        in0 == [DefaultKeyData EXCEPT !.data8 = SMC_CMD_READ_INDEX,
                                      !.data32 = current]
        c1 == smc_call(KERNEL_INDEX_SMC, in0, DefaultKeyData, rs[1])
        in1 == [in0 EXCEPT !.key = c1.output.key]
        g == get_key_info_inner(in1, c1.output, rs[2])
        r == read_key_with_info(g.input, g.output, rs[3])
    IN  IF ~HasMore(it)
        THEN [iter |-> it, reqs |-> <<>>, res |-> [tag |-> "None", err |-> 0, val |-> <<>>]]
        ELSE IF c1.res.tag = "Err"
        THEN [ iter |-> it1, reqs |-> <<c1.req>>,
               res |-> [tag |-> "Err", err |-> c1.res.err,
                        val |-> IndexError(c1.res.err, current)] ]
        ELSE IF g.res.tag = "Err"
        THEN [ iter |-> it1, reqs |-> <<c1.req>> \o g.reqs,
               res |-> [tag |-> "Err", err |-> g.res.err,
                        val |-> KeyInfoError(g.res.err, current, g.input)] ]
        ELSE IF r.res.tag = "Err"
        THEN [ iter |-> it1, reqs |-> <<c1.req>> \o g.reqs \o r.reqs,
               res |-> [tag |-> "Err", err |-> r.res.err,
                        val |-> ReadBytesError(r.res.err, current, r.input)] ]
        ELSE [iter |-> it1, reqs |-> <<c1.req>> \o g.reqs \o r.reqs, res |-> r.res]

----------------------------------------------------------------------------
(* State and actions.                                                      *)

\* payloads a caller hands to write_key: one byte, four bytes, exactly 32
\* bytes and 33 bytes
WriteValues ==
    { <<3>>, <<1, 2, 3, 4>>, [i \in 1..SMC_BYTES_LEN |-> 9],
      [i \in 1..(SMC_BYTES_LEN + 1) |-> 9] }

\* the record of one call: what it was, the requests it sent, the responses
\* it consumed and what it returned
Call(op, it, key, value, index, run, rs) ==
    [ op |-> op, it |-> it, key |-> key, value |-> value, index |-> index,
      reqs |-> run.reqs, resps |-> rs, res |-> run.res ]

NoResult == [tag |-> "None", err |-> 0, val |-> <<>>]

NoCall ==
    [ op |-> "none", it |-> "none", key |-> <<>>, value |-> <<>>, index |-> 0,
      reqs |-> <<>>, resps |-> <<>>, res |-> NoResult ]

\* no get_key_info call has been made
NotAsked ==
    [ turn |-> 0, key |-> <<>>, res |-> NoResult, dirty |-> FALSE, again |-> FALSE ]

\* the threads that hold a shared reference to one IOService
ThreadIds == {"t1", "t2"}

\* a thread outside every method of IOService
IdleThread ==
    [ pc |-> "idle", op |-> "none", key |-> <<>>, value |-> <<>>, rs |-> <<>>,
      res |-> NoResult ]

IdleList ==
    [ pc |-> "idle", counted |-> FALSE, total_count |-> 0, i |-> 0, values |-> <<>>,
      expected |-> <<>>, res |-> NoResult ]

\* an IOService that init has returned, held by a caller of the library
HeldEngine ==
    [ pc |-> "ready", cmd |-> "lib", conn |-> "open", opens |-> 1, closes |-> 0,
      runs |-> 1, late |-> FALSE, exit |-> "none" ]

\* no value is being decoded
NoDecode ==
    [ tag |-> <<>>, payload |-> <<>>, pc |-> "idle", out |-> NoneOpt,
      text |-> [form |-> "none", int |-> <<>>, num |-> 0, den |-> 1] ]

Init ==
    /\ iters = [id \in IterIds |-> NoIter]
    /\ drift = [id \in IterIds |-> FALSE]
    /\ last = NoCall
    /\ list = IdleList
    /\ engine = HeldEngine
    /\ dec = NoDecode
    /\ threads = [t \in ThreadIds |-> IdleThread]
    /\ channel = <<>>
    /\ smc = FarSide
    /\ asked = NotAsked

GetKeyInfoOn(R1) ==
    /\ list.pc # "loop"
    /\ \E key \in Keys :
         \E rs \in Scripts(LAMBDA s : get_key_info(key, s), R1, {}, {}) :
           last' = Call("get_key_info", "none", key, <<>>, 0,
                        get_key_info(key, Pad(rs)), rs)
    /\ UNCHANGED <<smc, asked, threads, channel, engine, dec, iters, drift, list>>

\* get_key_info, with every answer of the far side
GetKeyInfo == GetKeyInfoOn(AnyKeyInfoResponses)

ReadKeyOn(R1, R2) ==
    /\ list.pc # "loop"
    /\ \E key \in Keys :
         \E rs \in Scripts(LAMBDA s : read_key(key, s),
                           R1, R2, {}) :
           last' = Call("read_key", "none", key, <<>>, 0, read_key(key, Pad(rs)), rs)
    /\ UNCHANGED <<smc, asked, threads, channel, engine, dec, iters, drift, list>>

\* read_key, with every answer of the far side
ReadKey == ReadKeyOn(AnyKeyInfoResponses, ReadBytesResponses)

WriteKeyOn(V, R1, R2, R3) ==
    /\ list.pc # "loop"
    /\ \E key \in Keys, value \in V :
         \E rs \in Scripts(LAMBDA s : write_key(key, value, s),
                           R1, R2, R3) :
           last' = Call("write_key", "none", key, value, 0,
                        write_key(key, value, Pad(rs)), rs)
    /\ UNCHANGED <<smc, asked, threads, channel, engine, dec, iters, drift, list>>

\* write_key, with every payload and every answer of the far side
WriteKey == WriteKeyOn(WriteValues, AnyKeyInfoResponses, ReadBytesResponses, WriteBytesResponses)

\* the enumerators that were constructed with another count than c
\* and are not exhausted yet
Drifted(c) ==
    [ id \in IterIds |->
        \/ drift[id]
        \/ /\ iters[id].alive
           /\ iters[id].current < iters[id].total_count
           /\ iters[id].total_count # c ]

KeysCountOn(R1, R2) ==
    /\ list.pc # "loop"
    /\ \E rs \in Scripts(keys_count, R1, R2, {}) :
         LET run == keys_count(Pad(rs))
         IN  /\ last' = Call("keys_count", "none", <<>>, <<>>, 0, run, rs)
             /\ drift' = IF run.res.tag = "Ok" THEN Drifted(run.res.val) ELSE drift
    /\ UNCHANGED <<smc, asked, threads, channel, engine, dec, iters, list>>

\* keys_count, with every answer of the far side
KeysCount == KeysCountOn(KeyInfoResponses, ReadBytesResponses)

\* values_iter, for an enumerator that does not exist yet.  The model follows
\* enumerators of at most MaxKeys keys.
ValuesIterOn(id, R1, R2) ==
    /\ list.pc # "loop"
    /\ ~iters[id].alive
    /\ \E rs \in Scripts(values_iter, R1, R2, {}) :
         LET run == values_iter(Pad(rs))
         IN  /\ run.iter.alive => run.iter.total_count <= MaxKeys
             /\ last' = Call("values_iter", id, <<>>, <<>>, 0, run, rs)
             /\ iters' = [iters EXCEPT ![id] = run.iter]
    /\ UNCHANGED <<smc, asked, threads, channel, engine, dec, drift, list>>

\* values_iter, with every answer of the far side
ValuesIter(id) == ValuesIterOn(id, KeyInfoResponses, ReadBytesResponses)

\* io.rs:481-482 with a slip: the cursor belongs to the engine, so a pull
\* moves every enumerator of the engine
IterNextOn_Shared(id, R1, R2, R3) ==
    /\ list.pc # "loop"
    /\ iters[id].alive
    /\ \E rs \in Scripts(LAMBDA s : next(iters[id], s), R1, R2, R3) :
         LET run == next(iters[id], Pad(rs))
         IN  /\ last' = Call("next", id, <<>>, <<>>, iters[id].current, run, rs)
             /\ iters' = [j \in IterIds |-> IF iters[j].alive THEN run.iter ELSE iters[j]]
    /\ UNCHANGED <<smc, asked, threads, channel, engine, dec, drift, list>>

\* one pull of an enumerator
IterNextOn(id, R1, R2, R3) ==
    /\ list.pc # "loop"
    /\ iters[id].alive
    /\ \E rs \in Scripts(LAMBDA s : next(iters[id], s),
                         R1, R2, R3) :
         LET run == next(iters[id], Pad(rs))
         IN  /\ last' = Call("next", id, <<>>, <<>>, iters[id].current, run, rs)
             /\ iters' = [iters EXCEPT ![id] = run.iter]
    /\ UNCHANGED <<smc, asked, threads, channel, engine, dec, drift, list>>

\* one pull, with every answer of the far side
IterNext(id) == IterNextOn(id, ReadIndexResponses, KeyInfoResponses, ReadBytesResponses)

\* io.rs:402-405 with a slip: a key that cannot be read is pushed as an
\* empty value instead of being skipped
list_push_KeepFailed(values, r) ==
    IF r.res.tag = "Err" THEN Append(values, DefaultVal) ELSE Append(values, r.res.val)

\* io.rs:402-405: the value is pushed, or the key skipped when read_key failed
list_push(values, r) ==
    IF r.res.tag = "Err" THEN values ELSE Append(values, r.res.val)

\* one iteration of the for loop of list_all_values, for index i: res is an
\* Err when the iteration returns from list_all_values, else the new `values`
list_iteration(i, values, rs) ==
    LET in0 == [DefaultKeyData EXCEPT !.data8 = SMC_CMD_READ_INDEX, !.data32 = i]
        c1 == smc_call(KERNEL_INDEX_SMC, in0, DefaultKeyData, rs[1])
        r == read_key(ToBeBytes(c1.output.key), <<rs[2], rs[3]>>)
    IN  IF c1.res.tag = "Err" THEN [reqs |-> <<c1.req>>, res |-> c1.res]
        ELSE [reqs |-> <<c1.req>> \o r.reqs, res |-> Ok(list_push(values, r))]

\* the value the responses of one iteration describe, when all three round
\* trips succeeded and KEYINFO was not answered with the sentinel: otherwise
\* nothing
Described(rs) ==
    IF /\ Len(rs) = 3
       /\ \A j \in 1..3 : rs[j].status = KERN_SUCCESS
       /\ rs[2].out.result # RESULT_NOT_SUPPORTED
    THEN << [ key |-> ToBeBytes(rs[1].out.key),
              data_size |-> rs[2].out.key_info.data_size,
              data_type |-> ToBeBytes(rs[2].out.key_info.data_type),
              bytes |-> rs[3].out.bytes ] >>
    ELSE <<>>

\* list_all_values up to its loop: keys_count()?, then the empty vector.  The
\* model follows collections of at most MaxKeys keys.
ListAllBeginOn(R1, R2) ==
    /\ list.pc # "loop"
    /\ \E rs \in Scripts(keys_count, R1, R2, {}) :
         LET k == keys_count(Pad(rs))
         IN  /\ k.res.tag = "Ok" => k.res.val <= MaxKeys
             /\ last' = Call("list_all_values", "none", <<>>, <<>>, 0, k, rs)
             /\ list' = IF k.res.tag = "Err"
                        THEN [IdleList EXCEPT !.pc = "done", !.res = k.res]
                        ELSE IF k.res.val = 0
                        THEN [IdleList EXCEPT !.pc = "done", !.counted = TRUE,
                                              !.res = Ok(<<>>)]
                        ELSE [IdleList EXCEPT !.pc = "loop", !.counted = TRUE,
                                              !.total_count = k.res.val]
    /\ UNCHANGED <<smc, asked, threads, channel, engine, dec, iters, drift>>

\* the start of list_all_values, with every answer of the far side
ListAllBegin == ListAllBeginOn(KeyInfoResponses, ReadBytesResponses)

\* one iteration of the loop of list_all_values; the last one returns
ListAllStepOn(R1, R2, R3) ==
    /\ list.pc = "loop"
    /\ \E rs \in Scripts(LAMBDA s : list_iteration(list.i, list.values, s),
                         R1, R2, R3) :
         LET run == list_iteration(list.i, list.values, Pad(rs))
         IN  /\ last' = Call("list_all_values", "none", <<>>, <<>>, list.i, run, rs)
             /\ list' =
                  IF run.res.tag = "Err"
                  THEN [list EXCEPT !.pc = "done", !.res = run.res]
                  ELSE [list EXCEPT
                          !.i = list.i + 1,
                          !.values = run.res.val,
                          !.expected = list.expected \o Described(rs),
                          !.pc = IF list.i + 1 < list.total_count THEN "loop" ELSE "done",
                          !.res = IF list.i + 1 < list.total_count THEN NoResult
                                  ELSE Ok(run.res.val)]
    /\ UNCHANGED <<smc, asked, threads, channel, engine, dec, iters, drift>>

\* an iteration of list_all_values, with every answer of the far side
ListAllStep == ListAllStepOn(ReadIndexResponses, KeyInfoResponses, ReadBytesResponses)

----------------------------------------------------------------------------
(* The life of the connection: IOService::init, Drop, and the three       *)
(* functions of smc-cli that hold an IOService for the length of their     *)
(* body (src/smc-cli/src/func.rs).                                         *)

\* what IOMainPort, IOServiceGetMatchingServices, IOIteratorNext and
\* IOServiceOpen may return to init
InitEnvs ==
    [ port : {KERN_SUCCESS, PRIVILEGE_ERROR}, matching : {KERN_SUCCESS, PRIVILEGE_ERROR},
      device : {0, 1}, open : {KERN_SUCCESS, PRIVILEGE_ERROR} ]

\* IOService::init: Ok(Self { conn }) when all four steps went through,
\* else the message of the step that failed; no connection exists then
init(env) ==
    IF env.port # KERN_SUCCESS
    THEN [ok |-> FALSE, msg |-> "Can not initialize IO main port"]
    ELSE IF env.matching # KERN_SUCCESS
    THEN [ok |-> FALSE, msg |-> "Can not get matching service AppleSMC"]
    ELSE IF env.device = 0
    THEN [ok |-> FALSE, msg |-> "No SMC found"]
    ELSE IF env.open # KERN_SUCCESS
    THEN [ok |-> FALSE, msg |-> "IOServiceOpen()"]
    ELSE [ok |-> TRUE, msg |-> ""]

\* io.rs:445-449 with a slip: the Drop implementation is missing, the
\* connection stays open
drop_Leak(e) == e

\* impl Drop for IOService: IOServiceClose(self.conn)
drop(e) == [e EXCEPT !.conn = "closed", !.closes = e.closes + 1]

\* the function that holds the IOService leaves its body: `service` goes out
\* of scope and is dropped, on return, on `?` and on unwinding alike
Leave(e, exit) == [drop(e) EXCEPT !.pc = "returned", !.exit = exit]

\* requests go out on the connection; `late` remembers one that went out
\* while the connection was not open
Sending(e, reqs) == [e EXCEPT !.late = e.late \/ (reqs # <<>> /\ e.conn # "open")]

\* the key arguments of the commands, as bytes: "#KEY", "ABCD" and "ABC"
CliKeys == Keys \cup {<<65, 66, 67>>}

\* the value arguments of `write`, as bytes: "03", "01020304", "+3", "0",
\* "zz", a two-byte non-ASCII character, 32 times "09" and 33 times "09"
CliValues ==
    { <<48, 51>>, <<48, 49, 48, 50, 48, 51, 48, 52>>, <<43, 51>>, <<48>>,
      <<122, 122>>, <<195, 169>>,
      [i \in 1..(2 * SMC_BYTES_LEN) |-> IF i % 2 = 1 THEN 48 ELSE 57],
      [i \in 1..(2 * SMC_BYTES_LEN + 2) |-> IF i % 2 = 1 THEN 48 ELSE 57] }

\* the value of a hexadecimal digit, -1 for any other character
HexDigit(c) ==
    IF c \in 48..57 THEN c - 48
    ELSE IF c \in 65..70 THEN c - 55
    ELSE IF c \in 97..102 THEN c - 87
    ELSE -1

\* u8::from_str_radix(s, 16) of a two-character chunk, -1 when it fails; a
\* leading '+' is accepted
from_str_radix(c1, c2) ==
    IF c1 = 43 THEN HexDigit(c2)
    ELSE IF HexDigit(c1) < 0 \/ HexDigit(c2) < 0 THEN -1
    ELSE 16 * HexDigit(c1) + HexDigit(c2)

\* func.rs:35-53: the checks of `write` on its arguments and the bytes it
\* hands to write_key
write_args(key, value) ==
    LET n == Len(value) \div 2
        parsed == [i \in 1..n |-> from_str_radix(value[2 * i - 1], value[2 * i])]
    IN  IF Len(key) # 4 THEN [ok |-> FALSE, msg |-> "Invalid key!", bytes |-> <<>>]
        ELSE IF \E i \in 1..Len(value) : value[i] >= 128
        THEN [ok |-> FALSE, msg |-> "Value should be ascii!", bytes |-> <<>>]
        ELSE IF Len(value) % 2 # 0
        THEN [ok |-> FALSE, msg |-> "Invalid value!", bytes |-> <<>>]
        ELSE IF n > SMC_BYTES_LEN
        THEN [ok |-> FALSE, msg |-> "value is too long!", bytes |-> <<>>]
        ELSE IF \E i \in 1..n : parsed[i] < 0
        THEN [ok |-> FALSE, msg |-> "can not parse as hex", bytes |-> <<>>]
        ELSE [ok |-> TRUE, msg |-> "", bytes |-> parsed]

\* a command has been started and no IOService exists yet
NoEngine ==
    [ pc |-> "start", cmd |-> "none", conn |-> "none", opens |-> 0, closes |-> 0,
      runs |-> 1, late |-> FALSE, exit |-> "none" ]

InitLife ==
    /\ iters = [id \in IterIds |-> NoIter]
    /\ drift = [id \in IterIds |-> FALSE]
    /\ last = NoCall
    /\ list = IdleList
    /\ engine = NoEngine
    /\ dec = NoDecode
    /\ threads = [t \in ThreadIds |-> IdleThread]
    /\ channel = <<>>
    /\ smc = FarSide
    /\ asked = NotAsked

\* the first line of list, read and write: IOService::init()?
CliStart ==
    /\ engine.pc = "start"
    /\ \E cmd \in {"list", "read", "write"}, env \in InitEnvs :
         engine' = IF init(env).ok
                   THEN [engine EXCEPT !.cmd = cmd, !.pc = "ready", !.conn = "open",
                                       !.opens = engine.opens + 1]
                   ELSE [engine EXCEPT !.cmd = cmd, !.pc = "returned",
                                       !.exit = init(env).msg]
    /\ UNCHANGED <<smc, asked, threads, channel, iters, drift, last, list, dec>>

\* func.rs:25-31, the rest of `read`
CliRead ==
    /\ engine.pc = "ready"
    /\ engine.cmd = "read"
    /\ \E key \in CliKeys :
         IF Len(key) # 4
         THEN /\ \E e \in {engine} : engine' = Leave(e, "Invalid key!")
              /\ last' = last
         ELSE \E rs \in Scripts(LAMBDA s : read_key(key, s),
                                AnyKeyInfoResponses, ReadBytesResponses, {}) :
                \E run \in {read_key(key, Pad(rs))}, e \in {engine} :
                  /\ last' = Call("read_key", "none", key, <<>>, 0, run, rs)
                  /\ engine' = Leave(Sending(e, run.reqs),
                                     IF run.res.tag = "Err" THEN "error" ELSE "ok")
    /\ UNCHANGED <<smc, asked, threads, channel, iters, drift, list, dec>>

\* func.rs:35-58, the rest of `write`
CliWrite ==
    /\ engine.pc = "ready"
    /\ engine.cmd = "write"
    /\ \E key \in CliKeys, value \in CliValues :
         \E a \in {write_args(key, value)} :
           IF ~a.ok
           THEN /\ \E e \in {engine} : engine' = Leave(e, a.msg)
                /\ last' = last
           ELSE \E bytes \in {a.bytes} :
                  \E rs \in Scripts(LAMBDA s : write_key(key, bytes, s),
                                    AnyKeyInfoResponses, ReadBytesResponses,
                                    WriteBytesResponses) :
                    \E run \in {write_key(key, bytes, Pad(rs))}, e \in {engine} :
                      /\ last' = Call("write_key", "none", key, bytes, 0, run, rs)
                      /\ engine' = Leave(Sending(e, run.reqs),
                                         IF run.res.tag = "Err" THEN "error" ELSE "ok")
    /\ UNCHANGED <<smc, asked, threads, channel, iters, drift, list, dec>>

\* func.rs:9: service.values_iter().unwrap(); a failure panics, and the
\* unwinding drops `service`
CliListBegin ==
    /\ engine.pc = "ready"
    /\ engine.cmd = "list"
    /\ \E rs \in Scripts(values_iter, KeyInfoResponses, ReadBytesResponses, {}) :
         \E run \in {values_iter(Pad(rs))}, e \in {engine} :
           /\ run.iter.alive => run.iter.total_count <= MaxKeys
           /\ last' = Call("values_iter", "it1", <<>>, <<>>, 0, run, rs)
           /\ iters' = [iters EXCEPT !["it1"] = run.iter]
           /\ engine' = IF run.res.tag = "Err"
                         THEN Leave(Sending(e, run.reqs), "panic")
                         ELSE [Sending(e, run.reqs) EXCEPT !.pc = "loop"]
    /\ UNCHANGED <<smc, asked, threads, channel, drift, list, dec>>

\* func.rs:10-20: one turn of the for loop; at None the function returns
CliListPull ==
    /\ engine.pc = "loop"
    /\ \E rs \in Scripts(LAMBDA s : next(iters["it1"], s),
                         ReadIndexResponses, KeyInfoResponses, ReadBytesResponses) :
         \E run \in {next(iters["it1"], Pad(rs))}, e \in {engine} :
           /\ last' = Call("next", "it1", <<>>, <<>>, iters["it1"].current, run, rs)
           /\ iters' = [iters EXCEPT !["it1"] = run.iter]
           /\ engine' = IF run.res.tag = "None"
                         THEN Leave(e, "ok")
                         ELSE Sending(e, run.reqs)
    /\ UNCHANGED <<smc, asked, threads, channel, drift, list, dec>>

\* the command is run again, in a new process: nothing is left of the last
\* run but the tally of connections opened and closed
CliRestart ==
    /\ engine.pc = "returned"
    /\ engine.runs < MaxRuns
    /\ engine' = [NoEngine EXCEPT !.opens = engine.opens, !.closes = engine.closes,
                                  !.runs = engine.runs + 1, !.late = engine.late]
    /\ last' = NoCall
    /\ iters' = [id \in IterIds |-> NoIter]
    /\ UNCHANGED <<smc, asked, threads, channel, drift, list, dec>>

----------------------------------------------------------------------------
(* The typed decoder of value.rs: SMCVal::data_value, SmcTypeCode and      *)
(* parse_smc_value.  Integers of 16 bits and more are kept as sequences of *)
(* 16-bit limbs, least significant first: <<l1, l2, ...>> stands for       *)
(* l1 + l2 * 2^16 + ...; the top limb of a signed integer is signed.  A    *)
(* float is kept as the limbs of its bit pattern; a String as its UTF-8    *)
(* bytes.                                                                  *)

\* the type tags SmcTypeCode::from_bytes matches, value.rs:258-269
TAG_FLT == <<102, 108, 116, 32>>
TAG_SI8 == <<115, 105, 56, 32>>
TAG_SI16 == <<115, 105, 49, 54>>
TAG_UI16 == <<117, 105, 49, 54>>
TAG_SI32 == <<115, 105, 51, 50>>
TAG_SI64 == <<115, 105, 54, 52>>
TAG_UI64 == <<117, 105, 54, 52>>
TAG_FLAG == <<102, 108, 97, 103>>
TAG_IOFT == <<105, 111, 102, 116>>

\* value.rs:256-273 with a slip: a tag is matched with its padding trimmed,
\* so that "ui8" followed by a zero byte passes for "ui8 "
from_bytes_Trimmed(code) ==
    LET c == [i \in 1..4 |-> IF code[i] = 0 THEN 32 ELSE code[i]]
    IN  IF c = TAG_FLT THEN SomeOpt("Flt")
        ELSE IF c = TAG_UI8 THEN SomeOpt("Ui8")
        ELSE IF c = TAG_SI8 THEN SomeOpt("Si8")
        ELSE IF c = TAG_SI16 THEN SomeOpt("Si16")
        ELSE IF c = TAG_UI16 THEN SomeOpt("Ui16")
        ELSE IF c = TAG_UI32 THEN SomeOpt("Ui32")
        ELSE IF c = TAG_SI32 THEN SomeOpt("Si32")
        ELSE IF c = TAG_SI64 THEN SomeOpt("Si64")
        ELSE IF c = TAG_UI64 THEN SomeOpt("Ui64")
        ELSE IF c = TAG_CH8 THEN SomeOpt("Chars")
        ELSE IF c = TAG_FLAG THEN SomeOpt("Flag")
        ELSE IF c = TAG_IOFT THEN SomeOpt("Ioft")
        ELSE [some |-> FALSE, v |-> ""]

\* SmcTypeCode::from_bytes
from_bytes(code) ==
    IF code = TAG_FLT THEN SomeOpt("Flt")
    ELSE IF code = TAG_UI8 THEN SomeOpt("Ui8")
    ELSE IF code = TAG_SI8 THEN SomeOpt("Si8")
    ELSE IF code = TAG_SI16 THEN SomeOpt("Si16")
    ELSE IF code = TAG_UI16 THEN SomeOpt("Ui16")
    ELSE IF code = TAG_UI32 THEN SomeOpt("Ui32")
    ELSE IF code = TAG_SI32 THEN SomeOpt("Si32")
    ELSE IF code = TAG_SI64 THEN SomeOpt("Si64")
    ELSE IF code = TAG_UI64 THEN SomeOpt("Ui64")
    ELSE IF code = TAG_CH8 THEN SomeOpt("Chars")
    ELSE IF code = TAG_FLAG THEN SomeOpt("Flag")
    ELSE IF code = TAG_IOFT THEN SomeOpt("Ioft")
    ELSE [some |-> FALSE, v |-> ""]

\* TakeN::take::<N>: the first n bytes
take(data, n) == SubSeq(data, 1, n)

\* uN::from_le_bytes with a slip: the bytes are read in big-endian order
from_le_bytes_Swapped(b) ==
    [k \in 1..(Len(b) \div 2) |-> b[Len(b) - 2 * k + 1] * 256 + b[Len(b) - 2 * k + 2]]

\* uN::from_le_bytes of 2, 4 or 8 bytes, as limbs
from_le_bytes(b) == [k \in 1..(Len(b) \div 2) |-> b[2 * k - 1] + 256 * b[2 * k]]

\* uN::from_be_bytes of 2, 4 or 8 bytes, as limbs
from_be_bytes(b) ==
    [k \in 1..(Len(b) \div 2) |-> b[Len(b) - 2 * k + 1] * 256 + b[Len(b) - 2 * k + 2]]

\* `as i8`: the byte read as two's complement
as_i8(x) == IF x >= 128 THEN x - 256 ELSE x

\* iN::from_le_bytes after uN::from_le_bytes: the limbs read as two's complement
as_signed(limbs) ==
    [k \in 1..Len(limbs) |->
       IF k = Len(limbs) /\ limbs[k] >= 32768 THEN limbs[k] - 65536 ELSE limbs[k]]

\* the number of bytes a UTF-8 sequence that starts with byte b takes; 0 for
\* a byte that cannot start one
Utf8Width(b) ==
    IF b < 128 THEN 1
    ELSE IF b \in 194..223 THEN 2
    ELSE IF b \in 224..239 THEN 3
    ELSE IF b \in 240..244 THEN 4
    ELSE 0

\* the second byte c of a sequence that starts with b is in the range UTF-8
\* allows after b
Utf8SecondOk(b, c) ==
    IF b = 224 THEN c \in 160..191
    ELSE IF b = 237 THEN c \in 128..159
    ELSE IF b = 240 THEN c \in 144..191
    ELSE IF b = 244 THEN c \in 128..143
    ELSE c \in 128..191

\* the number of leading bytes of s that belong to the sequence its first
\* byte starts, as far as they are well formed
Utf8Good(s) ==
    LET w == Utf8Width(s[1])
        ok(j) == /\ j <= Len(s)
                 /\ IF j = 2 THEN Utf8SecondOk(s[1], s[2]) ELSE s[j] \in 128..191
    IN  IF w <= 1 THEN 1
        ELSE IF ~ok(2) THEN 1
        ELSE IF w = 2 THEN 2
        ELSE IF ~ok(3) THEN 2
        ELSE IF w = 3 THEN 3
        ELSE IF ~ok(4) THEN 3
        ELSE 4

\* String::from_utf8_lossy(slice).into_owned(), as the UTF-8 bytes of the
\* String: well-formed sequences are kept, every maximal ill-formed piece
\* becomes U+FFFD (bytes EF BF BD)
RECURSIVE from_utf8_lossy(_)
from_utf8_lossy(s) ==
    IF s = <<>> THEN <<>>
    ELSE LET n == Utf8Good(s)
             whole == Utf8Width(s[1]) = n
         IN  (IF whole THEN SubSeq(s, 1, n) ELSE <<239, 191, 189>>)
             \o from_utf8_lossy(SubSeq(s, n + 1, Len(s)))

\* value.rs:335 with a slip: the text runs up to and including the first zero
chars_end_Inclusive(data) ==
    IF \E i \in 1..Len(data) : data[i] = 0
    THEN CHOOSE i \in 1..Len(data) : data[i] = 0 /\ \A j \in 1..(i - 1) : data[j] # 0
    ELSE Len(data)

\* value.rs:335: data.iter().position(|&c| c == 0).unwrap_or(data.len()),
\* the number of bytes before the first zero
chars_end(data) ==
    IF \E i \in 1..Len(data) : data[i] = 0
    THEN (CHOOSE i \in 1..Len(data) : data[i] = 0 /\ \A j \in 1..(i - 1) : data[j] # 0) - 1
    ELSE Len(data)

\* value.rs:280 with a slip: the big-endian pattern is read little-endian too
flt_be_AsLe(b) == from_le_bytes(b)

\* value.rs:280: u32::from_be_bytes(b)
flt_be(b) == from_be_bytes(b)

\* parse_smc_value
parse_smc_value(type_code, data) ==
    CASE type_code = "Flt" ->
           [kind |-> "F32", le |-> from_le_bytes(take(data, 4)), be |-> flt_be(take(data, 4))]
      [] type_code = "Ui8" -> [kind |-> "U8", v |-> data[1]]
      [] type_code = "Si8" -> [kind |-> "I8", v |-> as_i8(data[1])]
      [] type_code = "Si16" -> [kind |-> "I16", v |-> as_signed(from_le_bytes(take(data, 2)))]
      [] type_code = "Ui16" -> [kind |-> "U16", v |-> from_le_bytes(take(data, 2))]
      [] type_code = "Ui32" -> [kind |-> "U32", v |-> from_le_bytes(take(data, 4))]
      [] type_code = "Si32" -> [kind |-> "I32", v |-> as_signed(from_le_bytes(take(data, 4)))]
      [] type_code = "Si64" -> [kind |-> "I64", v |-> as_signed(from_le_bytes(take(data, 8)))]
      [] type_code = "Ui64" -> [kind |-> "U64", v |-> from_le_bytes(take(data, 8))]
      [] type_code = "Flag" -> [kind |-> "Bool", v |-> data[1] # 0]
      [] type_code = "Chars" ->
           [kind |-> "Chars", v |-> from_utf8_lossy(SubSeq(data, 1, chars_end(data)))]
      [] type_code = "Ioft" -> [kind |-> "Ioft48_16", v |-> from_le_bytes(take(data, 8))]

\* SMCVal::data_value
data_value(val) ==
    IF ~from_bytes(val.data_type).some THEN NoneOpt
    ELSE SomeOpt(parse_smc_value(from_bytes(val.data_type).v, val.bytes))

\* value.rs:218 with a slip: the integer part is the raw value, not shifted
ioft_integer_Unshifted(raw) == raw

\* value.rs:218: raw >> 16, the upper 48 bits
ioft_integer(raw) == SubSeq(raw, 2, 4)

\* value.rs:218: raw & 0xFFFF, the lower 16 bits
ioft_fraction(raw) == raw[1]

\* the number of significant bits of n, for n below 2^16
BitLen(n) == Cardinality({k \in 0..15 : 2^k <= n})

\* value.rs:218, the f64 addition: whole is an integer below 2^48 (three
\* 16-bit limbs), part the numerator of a fraction over 65536, both exact as
\* f64.  The sum is the f64 nearest to whole + part/65536: its 53 significant
\* bits are kept, the d bits below them are rounded off to nearest, ties to
\* even.  The result is again an integer part and a numerator over 65536;
\* the top limb of the integer part takes the carry when the sum rounds up
\* to 2^48.
f64_add(whole, part) ==
    LET d == IF BitLen(whole[3]) > 5 THEN BitLen(whole[3]) - 5 ELSE 0
        unit == 2^d
        rem == part % unit
        up == \/ 2 * rem > unit
              \/ 2 * rem = unit /\ (part \div unit) % 2 = 1
        low == IF up THEN part - rem + unit ELSE part - rem
        l1 == whole[1] + low \div 65536
        l2 == whole[2] + l1 \div 65536
    IN  [ int |-> <<l1 % 65536, l2 % 65536, whole[3] + l2 \div 65536>>,
          num |-> low % 65536 ]

\* impl Display for SmcValue, for the two variants that compute before they
\* print: F32 prints one number when the two bit patterns are equal and both
\* otherwise; Ioft48_16 prints the f64 sum of (raw >> 16) as f64 and
\* (raw & 0xFFFF) as f64 / 65536.0.  The text is given as the number that is
\* printed, int + num/den, with the two operands of the sum beside it; the
\* writing of that number in decimal digits is not part of the model.
fmt(value) ==
    IF value.kind = "F32"
    THEN [ form |-> IF value.le = value.be THEN "le" ELSE "le, be",
           int |-> <<>>, num |-> 0, den |-> 1, whole |-> <<>>, part |-> 0 ]
    ELSE LET whole == ioft_integer(value.v)
             part == ioft_fraction(value.v)
             decoded == f64_add(whole, part)
         IN  [ form |-> "fixed", int |-> decoded.int, num |-> decoded.num,
               den |-> 65536, whole |-> whole, part |-> part ]

\* a payload of 32 bytes: the given leading bytes, then the fill byte
Payload(head, fill) ==
    [i \in 1..SMC_BYTES_LEN |-> IF i <= Len(head) THEN head[i] ELSE fill]

\* the payloads put before the decoder
DecodePayloads ==
    { ZeroBytes, MixedPayload,
      Payload(<<52, 18>>, 0), Payload(<<52, 18>>, 9),
      Payload(<<0, 0, 128, 63>>, 0),
      Payload(<<1, 2, 2, 1>>, 0), Payload(<<1, 2, 2, 1>>, 7),
      Payload(<<255, 254, 253, 252, 251, 250, 249, 248>>, 0),
      Payload(<<255, 254, 253, 252, 251, 250, 249, 248>>, 65),
      Payload(<<128>>, 0), Payload(<<0, 128, 0, 128>>, 0),
      Payload(<<79, 75>>, 0), Payload(<<79, 75, 0, 88>>, 90),
      Payload(<<195, 169, 226, 130>>, 0), Payload(<<72, 255, 73>>, 0),
      Payload(<<0, 4, 0, 0, 0, 0, 0, 128>>, 0), Payload(<<0, 12, 0, 0, 0, 0, 0, 128>>, 0),
      Payload(<<>>, 255) }

\* the twelve tags and some that are none of them: "hex_", "ui8" followed
\* by a zero byte, "UI8 ", " flt", "fp78" and four zero bytes
DecodeTags ==
    { TAG_FLT, TAG_UI8, TAG_SI8, TAG_SI16, TAG_UI16, TAG_UI32, TAG_SI32, TAG_SI64,
      TAG_UI64, TAG_CH8, TAG_FLAG, TAG_IOFT,
      <<104, 101, 120, 95>>, <<117, 105, 56, 0>>, <<85, 73, 56, 32>>,
      <<32, 102, 108, 116>>, <<102, 112, 55, 56>>, <<0, 0, 0, 0>> }

\* nothing has been printed
NoText == [form |-> "none", int |-> <<>>, num |-> 0, den |-> 1, whole |-> <<>>, part |-> 0]

InitDecode ==
    /\ iters = [id \in IterIds |-> NoIter]
    /\ drift = [id \in IterIds |-> FALSE]
    /\ last = NoCall
    /\ list = IdleList
    /\ engine = HeldEngine
    /\ threads = [t \in ThreadIds |-> IdleThread]
    /\ channel = <<>>
    /\ smc = FarSide
    /\ asked = NotAsked
    /\ \E tag \in DecodeTags, payload \in DecodePayloads :
         dec = [tag |-> tag, payload |-> payload, pc |-> "value", out |-> NoneOpt,
                text |-> NoText]

\* val.data_value() on the SMCVal with this tag and payload
DataValue ==
    /\ dec.pc = "value"
    /\ dec' = [dec EXCEPT
                 !.pc = "decoded",
                 !.out = data_value([DefaultVal EXCEPT !.data_type = dec.tag,
                                                       !.bytes = dec.payload])]
    /\ UNCHANGED <<smc, asked, threads, channel, iters, drift, last, list, engine>>

\* the decoded float or fixed-point value is printed
ShowValue ==
    /\ dec.pc = "decoded"
    /\ dec.out.some
    /\ dec.out.v.kind \in {"F32", "Ioft48_16"}
    /\ dec' = [dec EXCEPT !.pc = "shown", !.text = fmt(dec.out.v)]
    /\ UNCHANGED <<smc, asked, threads, channel, iters, drift, last, list, engine>>

----------------------------------------------------------------------------
(* Threads.  Every method of IOService takes &self and IOService holds     *)
(* only a port number, so it is Sync: several threads may be inside its    *)
(* methods at once.  A method is followed round trip by round trip: the    *)
(* thread enters the method, hands a request to IOConnectCallStructMethod, *)
(* waits for it to return, and goes on or returns.                         *)

\* the methods the threads call, with a value of four bytes for write_key
ThreadOps == {"get_key_info", "read_key", "write_key"}
ThreadValue == <<1, 2, 3, 4>>

\* the answers to a request a thread sent: one success and one failure for
\* each opcode
ThreadResponses(opcode) ==
    { [status |-> KERN_SUCCESS,
       out |-> IF opcode = SMC_CMD_READ_KEYINFO
               THEN [DefaultKeyData EXCEPT
                       !.key_info = [data_size |-> 4,
                                     data_type |-> FromBeBytes(TAG_UI32),
                                     data_attributes |-> 192]]
               ELSE IF opcode = SMC_CMD_READ_BYTES
               THEN [DefaultKeyData EXCEPT !.bytes = CountPayload(1)]
               ELSE DefaultKeyData],
      Filler }

\* the method a thread is in, run on the responses it has received so far
ThreadRun(th, rs) ==
    CASE th.op = "get_key_info" -> get_key_info(th.key, Pad(rs))
      [] th.op = "read_key" -> read_key(th.key, Pad(rs))
      [] OTHER -> write_key(th.key, th.value, Pad(rs))

\* io.rs:215-222 with a slip: the call into the kernel returns at once, as
\* an asynchronous send would
Blocked_Never(th) == FALSE

\* io.rs:215-222: IOConnectCallStructMethod is synchronous, the thread is
\* inside it until the kernel has answered
Blocked(th) == th.pc = "flight"

\* the channel without its i-th round trip
Without(i) == [j \in 1..(Len(channel) - 1) |-> IF j < i THEN channel[j] ELSE channel[j + 1]]

\* a thread enters get_key_info, read_key or write_key
ThreadBegin ==
    /\ \E t \in ThreadIds, op \in ThreadOps, key \in Keys :
         /\ threads[t].pc = "idle"
         /\ threads' = [threads EXCEPT ![t] =
                          [ pc |-> "call", op |-> op, key |-> key,
                            value |-> IF op = "write_key" THEN ThreadValue ELSE <<>>,
                            rs |-> <<>>, res |-> NoResult ]]
    /\ UNCHANGED <<smc, asked, channel, iters, drift, last, list, engine, dec>>

\* smc_call up to the entry into the kernel: the next request of the method
\* is in flight
ThreadSend ==
    /\ \E t \in ThreadIds :
         /\ threads[t].pc # "idle"
         /\ ~Blocked(threads[t])
         /\ \E run \in {ThreadRun(threads[t], threads[t].rs)} :
              channel' = Append(channel,
                                [thread |-> t, req |-> run.reqs[Len(threads[t].rs) + 1]])
         /\ threads' = [threads EXCEPT ![t].pc = "flight"]
    /\ UNCHANGED <<smc, asked, iters, drift, last, list, engine, dec>>

\* the kernel answers one of the round trips in flight, in any order; the
\* thread goes on to its next round trip or returns from the method
ThreadReturn ==
    /\ \E i \in 1..Len(channel) :
         \E t \in {channel[i].thread}, r \in ThreadResponses(channel[i].req.data8) :
           \E rs \in {Append(threads[t].rs, r)} :
             \E run \in {ThreadRun(threads[t], rs)} :
               /\ channel' = Without(i)
               /\ threads' = [threads EXCEPT ![t] =
                                IF Len(run.reqs) > Len(rs)
                                THEN [threads[t] EXCEPT !.pc = "call", !.rs = rs]
                                ELSE [IdleThread EXCEPT !.res = run.res]]
    /\ UNCHANGED <<smc, asked, iters, drift, last, list, engine, dec>>

----------------------------------------------------------------------------
(* Specifications.  IOService keeps no state between calls, so the calls   *)
(* on keys, the enumerator and list_all_values are explored separately.    *)

\* the calls on single keys
Next ==
    \/ GetKeyInfo
    \/ ReadKey
    \/ WriteKey
    \/ KeysCount

Spec == Init /\ [][Next]_vars

\* one enumerator, with keys_count calls between its pulls
NextIter ==
    \/ KeysCount
    \/ ValuesIter("it1")
    \/ IterNext("it1")

SpecIter == Init /\ [][NextIter]_vars

\* list_all_values
NextList ==
    \/ ListAllBegin
    \/ ListAllStep

SpecList == Init /\ [][NextList]_vars

\* the commands of smc-cli, each from init to the drop of its IOService
NextLife ==
    \/ CliStart
    \/ CliRead
    \/ CliWrite
    \/ CliListBegin
    \/ CliListPull
    \/ CliRestart

SpecLife == InitLife /\ [][NextLife]_vars

\* no enumerator exists and list_all_values was not called yet
Fresh == ~iters["it1"].alive /\ list.pc = "idle"

\* every operation of the engine: the key calls first, then either one
\* enumerator or list_all_values.  IOService holds nothing but conn, so what a
\* call does never depends on the calls before it.
NextOps ==
    \/ Fresh /\ GetKeyInfo
    \/ Fresh /\ ReadKey
    \/ Fresh /\ WriteKey
    \/ Fresh /\ KeysCount
    \/ list.pc = "idle" /\ ValuesIter("it1")
    \/ IterNext("it1")
    \/ ~iters["it1"].alive /\ ListAllBegin
    \/ ListAllStep

SpecOps == Init /\ [][NextOps]_vars

\* the answers the interleavings are explored with: for each opcode the
\* failure and one success; the payload of a READ_BYTES success counts
\* MaxKeys keys
MixKeyInfo == ThreadResponses(SMC_CMD_READ_KEYINFO)
MixReadBytes ==
    { [status |-> KERN_SUCCESS, out |-> [DefaultKeyData EXCEPT !.bytes = CountPayload(MaxKeys)]],
      Filler }
MixWriteBytes == ThreadResponses(SMC_CMD_WRITE_BYTES)
MixReadIndex ==
    { [status |-> KERN_SUCCESS, out |-> [DefaultKeyData EXCEPT !.key = FromBeBytes(KEY_ABCD)]],
      Filler }

\* the first enumerator exists: the other operations come in from here on
Underway == iters["it1"].alive

\* values_iter for the first enumerator, and for the second one once the
\* first exists
MixIter ==
    \E id \in IterIds :
      (id = "it2" => Underway) /\ ValuesIterOn(id, MixKeyInfo, MixReadBytes)

\* a pull of either enumerator
MixNext == \E id \in IterIds : IterNextOn(id, MixReadIndex, MixKeyInfo, MixReadBytes)

\* the other operations of the engine, while the first enumerator exists
MixGetKeyInfo == Underway /\ GetKeyInfoOn(MixKeyInfo)
MixReadKey == Underway /\ ReadKeyOn(MixKeyInfo, MixReadBytes)
MixWriteKey ==
    Underway /\ WriteKeyOn({ThreadValue}, MixKeyInfo, MixReadBytes, MixWriteBytes)
MixKeysCount == Underway /\ KeysCountOn(MixKeyInfo, MixReadBytes)
MixListBegin == Underway /\ list.pc = "idle" /\ ListAllBeginOn(MixKeyInfo, MixReadBytes)
MixListStep == ListAllStepOn(MixReadIndex, MixKeyInfo, MixReadBytes)

\* two enumerators of one engine and every other operation of the engine,
\* in any order once the first enumerator exists
NextMix ==
    \/ MixIter
    \/ MixNext
    \/ MixGetKeyInfo
    \/ MixReadKey
    \/ MixWriteKey
    \/ MixKeysCount
    \/ MixListBegin
    \/ MixListStep

SpecMix == Init /\ [][NextMix]_vars

\* two threads that share one IOService, without a lock around it
NextThreads ==
    \/ ThreadBegin
    \/ ThreadSend
    \/ ThreadReturn

SpecThreads == Init /\ [][NextThreads]_vars

\* the decoder, on every tag and payload of DecodeTags and DecodePayloads
NextDecode ==
    \/ DataValue
    \/ ShowValue

SpecDecode == InitDecode /\ [][NextDecode]_vars

----------------------------------------------------------------------------
(* Calls against one device.  The answers of a call are those the device   *)
(* gives to the requests the call sends; the device changes by the         *)
(* requests it receives and, between the calls, on its own.                *)

\* get_key_info(key), answered by the device; `asked` marks the call (turn
\* goes from 1 to 2 and back with every call), keeps what it returned, and
\* whether it repeated the call before it with no write and no change of the
\* device between the two
AskKeyInfo ==
    /\ threads["t1"].pc = "idle"
    /\ \E key \in Keys :
         \E rs \in {Served(LAMBDA s : get_key_info(key, s), smc)} :
           \E run \in {get_key_info(key, Pad(rs))} :
             /\ last' = Call("get_key_info", "none", key, <<>>, 0, run, rs)
             /\ smc' = After(smc, run.reqs)
             /\ asked' = [ turn |-> IF asked.turn = 1 THEN 2 ELSE 1, key |-> key,
                           res |-> run.res, dirty |-> FALSE,
                           again |-> asked.turn > 0 /\ asked.key = key /\ ~asked.dirty ]
    /\ UNCHANGED <<threads, channel, engine, dec, iters, drift, list>>

\* the caller enters write_key(key, value).  write_key blocks in up to three
\* round trips, and the device may change while it does: the call is a step
\* per round trip, with the caller inside the method between them
AskWriteKey ==
    /\ threads["t1"].pc = "idle"
    /\ \E key \in Keys :
         threads' = [threads EXCEPT !["t1"] =
                       [ pc |-> "call", op |-> "write_key", key |-> key,
                         value |-> ThreadValue, rs |-> <<>>, res |-> NoResult ]]
    /\ asked' = [asked EXCEPT !.dirty = TRUE]
    /\ UNCHANGED <<smc, last, channel, engine, dec, iters, drift, list>>

\* the next round trip of the write_key call under way, answered by the
\* device as it is now; the call goes on to its next round trip, or returns
WriteRoundTrip ==
    /\ threads["t1"].pc = "call"
    /\ \E th \in {threads["t1"]} :
         \E req \in {write_key(th.key, th.value, Pad(th.rs)).reqs[Len(th.rs) + 1]} :
           \E rs \in {Append(th.rs, Answer(smc, req))} :
             \E run \in {write_key(th.key, th.value, Pad(rs))} :
               /\ smc' = Stored(smc, req)
               /\ IF Len(run.reqs) > Len(rs)
                  THEN /\ threads' = [threads EXCEPT !["t1"].rs = rs]
                       /\ UNCHANGED last
                  ELSE /\ threads' = [threads EXCEPT !["t1"] = IdleThread]
                       /\ last' = Call("write_key", "none", th.key, th.value, 0, run, rs)
    /\ UNCHANGED <<asked, channel, engine, dec, iters, drift, list>>

\* the channel starts or stops failing
ChannelChange ==
    /\ \E st \in {KERN_SUCCESS} \cup ChannelErrors :
         /\ st # smc.status
         /\ smc' = [smc EXCEPT !.status = st]
    /\ asked' = [asked EXCEPT !.dirty = TRUE]
    /\ UNCHANGED <<threads, channel, engine, dec, iters, drift, list, last>>

\* what the device may come to hold for a key: each metadata of KeyInfos
\* with result 0, and each other result byte and the oversize metadata once
KeyEntries ==
    { [info |-> ki, result |-> 0] : ki \in KeyInfos \cup {OversizeKeyInfo} }
    \cup { [info |-> CHOOSE ki \in KeyInfos : ki.data_size = 4, result |-> r] :
              r \in KeyInfoResults }

\* the device comes to hold other metadata, or another result byte, for "ABCD"
KeyChange ==
    /\ \E e \in KeyEntries :
         /\ e.info # smc.keys[KEY_ABCD].info \/ e.result # smc.keys[KEY_ABCD].result
         /\ smc' = [smc EXCEPT !.keys[KEY_ABCD].info = e.info,
                               !.keys[KEY_ABCD].result = e.result]
    /\ asked' = [asked EXCEPT !.dirty = TRUE]
    /\ UNCHANGED <<threads, channel, engine, dec, iters, drift, list, last>>

NextDevice ==
    \/ AskKeyInfo
    \/ AskWriteKey
    \/ WriteRoundTrip
    \/ ChannelChange
    \/ KeyChange

SpecDevice == Init /\ [][NextDevice]_vars

----------------------------------------------------------------------------
(* Properties.                                                             *)

\* the far side answered the first n round trips of the last call with
\* success, and KEYINFO (round trip k, when k > 0) without the sentinel
Answered(n, k) ==
    /\ Len(last.resps) >= n
    /\ \A j \in 1..n : last.resps[j].status = KERN_SUCCESS
    /\ k > 0 => last.resps[k].out.result # RESULT_NOT_SUPPORTED

\* the opcodes of the requests the last call sent, in order
Opcodes == [j \in 1..Len(last.reqs) |-> last.reqs[j].data8]

Sent(opcode) == \E j \in 1..Len(last.reqs) : last.reqs[j].data8 = opcode

\* C1: when the read_key inside write_key succeeds and reports a data_size
\* other than the length of a payload of at most 32 bytes, write_key returns
\* InvalidArgument and has sent no WRITE_BYTES request.
C1_MismatchRejected ==
    ( /\ last.op = "write_key"
      /\ Len(last.value) <= 32
      /\ Answered(2, 1)
      /\ last.resps[1].out.key_info.data_size # Len(last.value) )
    => /\ last.res.tag = "Err"
       /\ last.res.err = KERN_INVALID_ARGUMENT
       /\ ~Sent(SMC_CMD_WRITE_BYTES)

\* C1 witness: a 4-byte payload for a key whose declared size is 1 was rejected.
C1_Witness ==
    /\ last.op = "write_key"
    /\ Len(last.value) = 4
    /\ Answered(2, 1)
    /\ last.resps[1].out.key_info.data_size = 1
    /\ last.res.err = KERN_INVALID_ARGUMENT

\* C2: write_key with a payload longer than 32 bytes returns InvalidArgument
\* without a single round trip.
C2_TooLongRejected ==
    (last.op = "write_key" /\ Len(last.value) > 32)
    => /\ last.res.tag = "Err"
       /\ last.res.err = KERN_INVALID_ARGUMENT
       /\ last.reqs = <<>>

\* C2 witness: a 33-byte payload was rejected.
C2_Witness ==
    /\ last.op = "write_key"
    /\ Len(last.value) = 33
    /\ last.res.err = KERN_INVALID_ARGUMENT

\* C3: a successful KEYINFO round trip with result 132 makes get_key_info and
\* read_key fail with NotSupported, read_key sending no READ_BYTES; with any
\* other result get_key_info returns the key_info of the response.
C3_NotSupported ==
    /\ ( /\ last.op \in {"get_key_info", "read_key"}
         /\ Answered(1, 0)
         /\ last.resps[1].out.result = 132 )
       => /\ last.res.tag = "Err"
          /\ last.res.err = KERN_NOT_SUPPORTED
          /\ Opcodes = <<SMC_CMD_READ_KEYINFO>>
    /\ ( /\ last.op = "get_key_info"
         /\ Answered(1, 0)
         /\ last.resps[1].out.result # 132 )
       => /\ last.res.tag = "Ok"
          /\ last.res.val = last.resps[1].out.key_info

\* C3 witness: read_key(ABCD) answered with result 132 failed with NotSupported.
C3_Witness ==
    /\ last.op = "read_key"
    /\ last.key = KEY_ABCD
    /\ Answered(1, 0)
    /\ last.resps[1].out.result = 132
    /\ last.res.err = KERN_NOT_SUPPORTED

\* C4: a successful read_key(key) sends exactly a KEYINFO request for key and
\* then a READ_BYTES request for key whose key_info.data_size and
\* key_info.data_type are those of the KEYINFO response.
C4_ReadEchoesSizeAndType ==
    (last.op = "read_key" /\ last.res.tag = "Ok")
    => /\ Opcodes = <<SMC_CMD_READ_KEYINFO, SMC_CMD_READ_BYTES>>
       /\ ToBeBytes(last.reqs[1].key) = last.key
       /\ ToBeBytes(last.reqs[2].key) = last.key
       /\ last.reqs[2].key_info.data_size = last.resps[1].out.key_info.data_size
       /\ last.reqs[2].key_info.data_type = last.resps[1].out.key_info.data_type

\* C5: keys_count fails with KERN_FAILURE whenever the read of #KEY succeeds
\* with a data_size other than 4.
C5_CountSizeChecked ==
    ( /\ last.op = "keys_count"
      /\ Answered(2, 1)
      /\ last.resps[1].out.key_info.data_size # 4 )
    => /\ last.res.tag = "Err"
       /\ last.res.err = KERN_FAILURE

\* C5 witness: #KEY was read with declared size 1 and keys_count failed.
C5_Witness ==
    /\ last.op = "keys_count"
    /\ Answered(2, 1)
    /\ last.resps[1].out.key_info.data_size = 1
    /\ last.res.err = KERN_FAILURE

\* C6: when the read of #KEY succeeds with data_size 4, keys_count returns
\* b0*2^24 + b1*2^16 + b2*2^8 + b3 of the payload's first four bytes.
C6_CountBigEndian ==
    ( /\ last.op = "keys_count"
      /\ Answered(2, 1)
      /\ last.resps[1].out.key_info.data_size = 4 )
    => /\ last.res.tag = "Ok"
       /\ LET b == last.resps[2].out.bytes
          IN  last.res.val = b[1] * 16777216 + b[2] * 65536 + b[3] * 256 + b[4]

\* C6 witness: payload 01 02 03 04 ... was returned as 0x01020304.
C6_Witness ==
    /\ last.op = "keys_count"
    /\ Answered(2, 1)
    /\ SubSeq(last.resps[2].out.bytes, 1, 4) = <<1, 2, 3, 4>>
    /\ last.res.tag = "Ok"
    /\ last.res.val = 16909060

\* C7: an enumerator constructed with total_count = N hands out exactly N
\* items, Ok and Err together, and then ends: it never hands out more than N,
\* a pull hands out an item (Ok or Err) whenever fewer than N were handed
\* out, and a pull ends the sequence only after N.
C7_ExactlyN ==
    \A id \in IterIds :
      iters[id].alive =>
        /\ iters[id].yielded <= iters[id].total_count
        /\ (last.op = "next" /\ last.it = id) =>
             IF last.res.tag = "None"
             THEN iters[id].yielded = iters[id].total_count
             ELSE /\ last.res.tag \in {"Ok", "Err"}
                  /\ iters[id].yielded = last.index + 1

\* C7 witness: the second and last item of an enumerator of two keys was an
\* error, and the enumerator has handed out its two items.
C7_Witness ==
    /\ last.op = "next"
    /\ last.res.tag = "Err"
    /\ iters[last.it].total_count = 2
    /\ iters[last.it].yielded = 2

\* the round trip at which the last pull failed: the first whose channel call
\* failed, or KEYINFO (2) when it was answered with the sentinel
FailedPhase ==
    IF last.resps[1].status # KERN_SUCCESS THEN 1
    ELSE IF \/ last.resps[2].status # KERN_SUCCESS
            \/ last.resps[2].out.result = RESULT_NOT_SUPPORTED THEN 2
    ELSE 3

\* C8: an enumeration error carries the fields known at the failing phase:
\* READ_INDEX: the index only; KEYINFO (also result 132): the index and the
\* key READ_INDEX returned; READ_BYTES: index, key, and the data_size and
\* data_type of the KEYINFO response.
C8_ErrorFields ==
    (last.op = "next" /\ last.res.tag = "Err") =>
      LET e == last.res.val
      IN  /\ e.index = last.index
          /\ e.err_code = last.res.err
          /\ FailedPhase = 1 =>
               /\ e.key = NoneOpt
               /\ e.data_size = NoneOpt
               /\ e.data_type = NoneOpt
          /\ FailedPhase = 2 =>
               /\ e.key = SomeOpt(last.resps[1].out.key)
               /\ e.data_size = NoneOpt
               /\ e.data_type = NoneOpt
          /\ FailedPhase = 3 =>
               /\ e.key = SomeOpt(last.resps[1].out.key)
               /\ e.data_size = SomeOpt(last.resps[2].out.key_info.data_size)
               /\ e.data_type = SomeOpt(last.resps[2].out.key_info.data_type)

\* C8 witness: KEYINFO for ABCD answered with result 132 gave an error with
\* key ABCD, NotSupported and no data_size or data_type.
C8_Witness ==
    /\ last.op = "next"
    /\ last.res.tag = "Err"
    /\ FailedPhase = 2
    /\ last.resps[2].status = KERN_SUCCESS
    /\ last.res.val.err_code = KERN_NOT_SUPPORTED
    /\ last.res.val.key = SomeOpt(FromBeBytes(KEY_ABCD))
    /\ ~last.res.val.data_size.some
    /\ ~last.res.val.data_type.some

\* C9 as claimed: once keys_count has succeeded, list_all_values returns Ok
\* with exactly the values of the indices whose three round trips succeeded,
\* whichever of READ_INDEX, KEYINFO and READ_BYTES failed for the others.
C9_SkipsEveryFailure ==
    (list.pc = "done" /\ list.counted) =>
      /\ list.res.tag = "Ok"
      /\ list.res.val = list.expected

\* the loop of list_all_values ended in an iteration whose READ_INDEX failed
IndexFailed ==
    /\ list.total_count > 0
    /\ last.reqs[1].data8 = SMC_CMD_READ_INDEX
    /\ last.resps[1].status # KERN_SUCCESS

\* C9 as amended: list_all_values skips an index whose KEYINFO or READ_BYTES
\* fails and returns Ok with exactly the values of the indices whose three
\* round trips succeeded, unless a READ_INDEX round trip fails: that ends
\* list_all_values at once with the channel's error code.
C9_SkipsReadFailures ==
    /\ list.pc = "loop" => list.values = list.expected
    /\ (list.pc = "done" /\ list.counted) =>
         IF IndexFailed
         THEN /\ list.res.tag = "Err"
              /\ list.res.err = last.resps[1].status
              /\ list.i < list.total_count
         ELSE /\ list.res.tag = "Ok"
              /\ list.res.val = list.expected
              /\ list.i = list.total_count

\* C9 witness: of two keys one was skipped and one returned.
C9_Witness ==
    /\ list.pc = "done"
    /\ list.total_count = 2
    /\ list.res.tag = "Ok"
    /\ Len(list.res.val) = 1

\* an enumerator, once constructed, stays and keeps its total_count
TotalFixed ==
    \A id \in IterIds :
      iters[id].alive =>
        /\ iters'[id].alive
        /\ iters'[id].total_count = iters[id].total_count

\* values_iter reads #KEY once, with one KEYINFO and one READ_BYTES, and takes
\* its total_count from that payload; when keys_count fails there is no
\* enumerator and no READ_INDEX request
CountAtConstruction ==
    /\ (last.op = "values_iter" /\ last.res.tag = "Ok") =>
         /\ Opcodes = <<SMC_CMD_READ_KEYINFO, SMC_CMD_READ_BYTES>>
         /\ \A j \in 1..2 : ToBeBytes(last.reqs[j].key) = KEY_COUNT
         /\ iters[last.it].alive
         /\ LET b == last.resps[2].out.bytes
            IN  iters[last.it].total_count =
                  b[1] * 16777216 + b[2] * 65536 + b[3] * 256 + b[4]
    /\ (last.op = "values_iter" /\ last.res.tag = "Err") =>
         /\ ~iters[last.it].alive
         /\ ~Sent(SMC_CMD_READ_INDEX)

\* an enumerator that ends has handed out exactly its total_count items, also
\* when keys_count has reported another count since
YieldsConstructionCount ==
    (last.op = "next" /\ last.res.tag = "None") =>
      iters[last.it].yielded = iters[last.it].total_count

\* no pull sends a request that names #KEY
NoCountKeyInPull ==
    last.op = "next" =>
      \A j \in 1..Len(last.reqs) : ToBeBytes(last.reqs[j].key) # KEY_COUNT

\* a pull sends READ_INDEX for its index, naming no key, and after it only
\* KEYINFO and READ_BYTES requests for the key that READ_INDEX returned
PullReadsOnlyIndexedKey ==
    (last.op = "next" /\ last.reqs # <<>>) =>
      /\ last.reqs[1].data8 = SMC_CMD_READ_INDEX
      /\ last.reqs[1].key = 0
      /\ last.reqs[1].data32 = last.index
      /\ \A j \in 2..Len(last.reqs) :
           /\ last.reqs[j].data8 \in {SMC_CMD_READ_KEYINFO, SMC_CMD_READ_BYTES}
           /\ last.reqs[j].key = last.resps[1].out.key

\* C10 as claimed: the key count is fetched once, at construction: no pull
\* sends a request for #KEY, the total count never changes after
\* construction, the enumerator yields the count observed at construction
\* whatever keys_count reports later, and a failed keys_count produces no
\* enumerator and no READ_INDEX request.
C10_NoPullNamesCountKey ==
    /\ [](/\ NoCountKeyInPull
          /\ CountAtConstruction
          /\ YieldsConstructionCount)
    /\ [][TotalFixed]_vars

\* C10 as amended: as claimed, except that a pull does send KEYINFO and
\* READ_BYTES requests for #KEY when READ_INDEX returns #KEY as the key of
\* the index; a pull sends no other request that names #KEY.
C10_CountFetchedOnce ==
    /\ [](/\ PullReadsOnlyIndexedKey
          /\ CountAtConstruction
          /\ YieldsConstructionCount)
    /\ [][TotalFixed]_vars

\* C10 witness: an enumerator of two keys ended after two items although
\* keys_count reported another count while it was under way.
C10_Witness ==
    /\ last.op = "next"
    /\ last.res.tag = "None"
    /\ drift[last.it]
    /\ iters[last.it].total_count = 2
    /\ iters[last.it].yielded = 2

----------------------------------------------------------------------------
(* Error propagation, write after read, metadata queries.                  *)

\* the calls that return a plain kern_return_t error
KeyCalls == {"get_key_info", "read_key", "write_key", "keys_count"}

\* C12: when a round trip of get_key_info, read_key, write_key or keys_count
\* ends with a non-success channel status c, the call returns the error c,
\* unchanged, and that round trip is the last one the call performs.
C12_StatusPropagates ==
    last.op \in KeyCalls =>
      \A j \in 1..Len(last.resps) :
        last.resps[j].status # KERN_SUCCESS =>
          /\ last.res.tag = "Err"
          /\ last.res.err = last.resps[j].status
          /\ j = Len(last.reqs)

\* C12 witness: a write_key whose two reads succeeded and whose WRITE_BYTES
\* round trip ended with the privilege error, which write_key returned.
C12_Witness ==
    /\ last.op = "write_key"
    /\ Opcodes = <<SMC_CMD_READ_KEYINFO, SMC_CMD_READ_BYTES, SMC_CMD_WRITE_BYTES>>
    /\ last.resps[3].status = PRIVILEGE_ERROR
    /\ last.res = Err(PRIVILEGE_ERROR)

\* the step is a write_key that follows a successful read_key of the same key,
\* with a payload as long as the size the read reported, and the far side
\* answered the KEYINFO of the write (if it got that far) as it answered the
\* KEYINFO of the read
WriteAfterRead ==
    /\ last.op = "read_key"
    /\ last.res.tag = "Ok"
    /\ last'.op = "write_key"
    /\ last'.key = last.key
    /\ Len(last'.value) = last.res.val.data_size
    /\ Len(last'.resps) >= 1 => last'.resps[1] = last.resps[1]

\* the write succeeded, or failed with the status of its last round trip
OkOrChannelError ==
    \/ last'.res.tag = "Ok"
    \/ /\ last'.res.tag = "Err"
       /\ last'.res.err # KERN_INVALID_ARGUMENT
       /\ last'.resps # <<>>
       /\ last'.res.err = last'.resps[Len(last'.resps)].status
       /\ last'.res.err # KERN_SUCCESS

\* C13 as claimed: a write_key that follows a successful read_key of the same
\* key, with a payload of exactly the declared size the read reported and with
\* unchanged metadata, never returns InvalidArgument: it succeeds or fails
\* with a channel error code.
C13_WriteAfterReadAnySize == [][WriteAfterRead => OkOrChannelError]_vars

\* C13 as amended: the same, for a declared size of at most 32 bytes.
C13_WriteAfterRead ==
    [][(WriteAfterRead /\ last.res.val.data_size <= SMC_BYTES_LEN)
         => OkOrChannelError]_vars

\* C13 witness: a 4-byte write to a key just read with declared size 4 went
\* through all three round trips and succeeded.
C13_Witness ==
    /\ last.op = "write_key"
    /\ Len(last.value) = 4
    /\ Answered(3, 1)
    /\ last.resps[1].out.key_info.data_size = 4
    /\ last.res.tag = "Ok"

\* get_key_info sends one KEYINFO request for its key and nothing else, and
\* the metadata it returns is the metadata the far side reported
OneKeyInfoRequest ==
    last.op = "get_key_info" =>
      /\ Opcodes = <<SMC_CMD_READ_KEYINFO>>
      /\ ToBeBytes(last.reqs[1].key) = last.key
      /\ ~Sent(SMC_CMD_READ_BYTES)
      /\ ~Sent(SMC_CMD_WRITE_BYTES)
      /\ last.res.tag = "Ok" => last.res.val = last.resps[1].out.key_info

\* a step is a get_key_info call against the device: the mark of the calls
\* turns
Asking == asked'.turn # asked.turn

\* a get_key_info call leaves the device as it found it
AskingLeavesDevice == Asking => smc' = smc

\* a get_key_info call for the key of the call before it, with no write and
\* no change of the device since that call returned, returns what that call
\* returned: the same error, or the same data_size, data_type and
\* data_attributes
AskingAgainSameInfo ==
    (Asking /\ asked.turn > 0 /\ asked'.key = asked.key /\ ~asked.dirty) =>
      /\ asked'.res.tag = asked.res.tag
      /\ asked'.res.err = asked.res.err
      /\ asked.res.tag = "Ok" =>
            /\ asked'.res.val.data_size = asked.res.val.data_size
            /\ asked'.res.val.data_type = asked.res.val.data_type
            /\ asked'.res.val.data_attributes = asked.res.val.data_attributes

\* C14: get_key_info is idempotent and read-only: two successive calls for
\* one key with no write and no change on the far side between them return
\* identical data_size, data_type and data_attributes (or the identical
\* error); a call leaves the far side as it found it, and it sends a single
\* KEYINFO request, never READ_BYTES or WRITE_BYTES.
C14_IdempotentReadOnly ==
    /\ []OneKeyInfoRequest
    /\ [][AskingLeavesDevice /\ AskingAgainSameInfo]_vars

\* C14 witness: the second of two successive get_key_info calls for "ABCD",
\* with no write and no change of the device between them, has returned the
\* metadata of the 1-byte "ui8 " key, as the first did.
C14_Witness ==
    /\ asked.again
    /\ asked.key = KEY_ABCD
    /\ last.op = "get_key_info"
    /\ last.key = KEY_ABCD
    /\ last.res.tag = "Ok"
    /\ last.res.val.data_size = 1
    /\ ToBeBytes(last.res.val.data_type) = TAG_UI8
    /\ last.res.val.data_attributes = 128

----------------------------------------------------------------------------
(* The order of the enumeration.                                           *)

\* the positions of the READ_INDEX requests among the requests of the last call
IndexRequests == {j \in 1..Len(last.reqs) : last.reqs[j].data8 = SMC_CMD_READ_INDEX}

\* the pull that yielded the k-th item of an enumerator sent one READ_INDEX
\* request, its first request, for index k-1; the item is the error record
\* of index k-1 or the value of the key READ_INDEX returned for it; the
\* cursor then stands at k
PullOfIndex ==
    (last.op = "next" /\ last.res.tag # "None") =>
      LET k == iters[last.it].yielded
      IN  /\ IndexRequests = {1}
          /\ last.reqs[1].data32 = k - 1
          /\ last.index = k - 1
          /\ iters[last.it].current = k
          /\ last.res.tag = "Err" => last.res.val.index = k - 1
          /\ last.res.tag = "Ok" => last.res.val.key = ToBeBytes(last.resps[1].out.key)

\* a pull that yields an item moves the cursor of its enumerator on by one and
\* hands out one item more; a pull at the end moves nothing
PullAdvancesByOne ==
    \A id \in IterIds :
      (iters[id].alive /\ iters'[id].alive /\ last'.op = "next" /\ last'.it = id) =>
        IF last'.res.tag = "None"
        THEN iters'[id] = iters[id]
        ELSE /\ iters'[id].current = iters[id].current + 1
             /\ iters'[id].yielded = iters[id].yielded + 1

\* C20: the enumerator's index advances by exactly one on every pull whatever
\* the outcome of the step, and nothing is retried: the k-th pull sends
\* exactly one READ_INDEX request, with index k-1, and the item it yields
\* belongs to index k-1, so no index is skipped or repeated.
C20_AscendingNoRetry == []PullOfIndex /\ [][PullAdvancesByOne]_vars

\* C20 witness: the second pull of an enumerator, after a first pull that
\* had failed or succeeded, failed at KEYINFO and yielded the error of index 1.
C20_Witness ==
    /\ last.op = "next"
    /\ iters[last.it].yielded = 2
    /\ last.res.tag = "Err"
    /\ Opcodes = <<SMC_CMD_READ_INDEX, SMC_CMD_READ_KEYINFO>>
    /\ last.res.val.index = 1
    /\ last.reqs[1].data32 = 1

----------------------------------------------------------------------------
(* The life of the connection.                                             *)

\* every connection a successful init opened is closed once when the function
\* holding it has returned, and is open and not yet closed before that; a
\* failed init leaves no connection and closes nothing
ClosedOncePerInit ==
    /\ engine.pc = "returned" => engine.closes = engine.opens
    /\ engine.pc \in {"ready", "loop"} =>
         /\ engine.conn = "open"
         /\ engine.closes = engine.opens - 1
    /\ engine.pc = "start" => engine.closes = engine.opens
    /\ (engine.pc = "returned" /\ engine.conn = "none") =>
         engine.exit \in { "Can not initialize IO main port",
                           "Can not get matching service AppleSMC",
                           "No SMC found", "IOServiceOpen()" }
    /\ (engine.pc = "returned" /\ engine.conn # "none") => engine.conn = "closed"

\* a step closes at most one connection, an open one, and only the step that
\* leaves the function closes; a failed init closes and opens nothing
CloseOnlyOnLeave ==
    /\ engine'.closes # engine.closes =>
         /\ engine'.closes = engine.closes + 1
         /\ engine.conn = "open"
         /\ engine'.conn = "closed"
         /\ engine'.pc = "returned"
    /\ (engine.pc = "start" /\ engine'.conn = "none") =>
         /\ engine'.closes = engine.closes
         /\ engine'.opens = engine.opens

\* C11: the channel is released exactly once per successful init and never
\* otherwise: the engine a successful init returned closes its connection
\* once when it goes out of scope, on normal return, on every early error
\* return and on unwinding; no request is sent after the close; a failed
\* init performs no close.
C11_ReleasedExactlyOnce ==
    /\ [](ClosedOncePerInit /\ ~engine.late)
    /\ [][CloseOnlyOnLeave]_vars

\* C11 witness: the second run of a command left `write` early, on a value
\* that is not hexadecimal, after a successful init: two connections were
\* opened in all and two closed.
C11_Witness ==
    /\ engine.pc = "returned"
    /\ engine.cmd = "write"
    /\ engine.exit = "can not parse as hex"
    /\ engine.runs = 2
    /\ engine.opens = 2
    /\ engine.closes = 2
    /\ engine.conn = "closed"

----------------------------------------------------------------------------
(* The typed decoder.  In the formulas below p is the payload, p[1] its    *)
(* byte 0, and <<l1, l2, ...>> the integer l1 + l2 * 2^16 + ...            *)

\* data_value has been applied to the tag and payload of dec
Decoded == dec.pc \in {"decoded", "shown"}

\* the twelve tags, byte by byte: "flt ", "ui8 ", "si8 ", "si16", "ui16",
\* "ui32", "si32", "si64", "ui64", "ch8*", "flag", "ioft"
TwelveTags ==
    { <<102, 108, 116, 32>>, <<117, 105, 56, 32>>, <<115, 105, 56, 32>>,
      <<115, 105, 49, 54>>, <<117, 105, 49, 54>>, <<117, 105, 51, 50>>,
      <<115, 105, 51, 50>>, <<115, 105, 54, 52>>, <<117, 105, 54, 52>>,
      <<99, 104, 56, 42>>, <<102, 108, 97, 103>>, <<105, 111, 102, 116>> }

\* C15: data_value returns None for every 4-byte tag other than the twelve
\* recognized ones and Some value for each of the twelve, whatever the
\* 32-byte payload.
C15_SomeExactlyForTwelve ==
    Decoded => (dec.out.some <=> dec.tag \in TwelveTags)

\* C15 witness: the tag "ui8" followed by a zero byte was decoded to None,
\* with a payload that is not all zero.
C15_Witness ==
    /\ Decoded
    /\ dec.tag = <<117, 105, 56, 0>>
    /\ dec.payload[1] = 52
    /\ ~dec.out.some

\* the little-endian integer of the leading w bytes of payload p, as limbs,
\* read as two's complement when signed
LeadingLe(p, w, signed) ==
    [ k \in 1..(w \div 2) |->
        LET l == p[2 * k - 1] + 256 * p[2 * k]
        IN  IF signed /\ k = w \div 2 /\ l >= 32768 THEN l - 65536 ELSE l ]

\* the width in bytes of the integer tags
IntWidth(tag) ==
    CASE tag \in {<<117, 105, 56, 32>>, <<115, 105, 56, 32>>} -> 1
      [] tag \in {<<117, 105, 49, 54>>, <<115, 105, 49, 54>>} -> 2
      [] tag \in {<<117, 105, 51, 50>>, <<115, 105, 51, 50>>} -> 4
      [] tag \in {<<117, 105, 54, 52>>, <<115, 105, 54, 52>>} -> 8
      [] OTHER -> 0

\* the tag is one of si8, si16, si32, si64
IntSigned(tag) == tag[1] = 115

\* the variant an integer tag decodes to
IntKind(tag) ==
    CASE tag = <<117, 105, 56, 32>> -> "U8"
      [] tag = <<115, 105, 56, 32>> -> "I8"
      [] tag = <<117, 105, 49, 54>> -> "U16"
      [] tag = <<115, 105, 49, 54>> -> "I16"
      [] tag = <<117, 105, 51, 50>> -> "U32"
      [] tag = <<115, 105, 51, 50>> -> "I32"
      [] tag = <<117, 105, 54, 52>> -> "U64"
      [] tag = <<115, 105, 54, 52>> -> "I64"
      [] OTHER -> "none"

\* C16: for the integer tags the decoded value is the little-endian integer
\* of the leading 1, 2, 4 or 8 payload bytes in the width and signedness of
\* the tag (signed as two's complement), and no later byte matters: every
\* payload with the same leading bytes decodes to the same value; "ui16"
\* with payload 0x34, 0x12, 0, ... decodes to 0x1234 (4660).
C16_LittleEndianIntegers ==
    (Decoded /\ IntWidth(dec.tag) > 0) =>
      LET p == dec.payload
          w == IntWidth(dec.tag)
          out == dec.out.v
      IN  /\ dec.out.some
          /\ out.kind = IntKind(dec.tag)
          /\ w = 1 => out.v = IF IntSigned(dec.tag) /\ p[1] >= 128 THEN p[1] - 256
                                ELSE p[1]
          /\ w > 1 => out.v = LeadingLe(p, w, IntSigned(dec.tag))
          /\ \A q \in DecodePayloads :
               SubSeq(q, 1, w) = SubSeq(p, 1, w) =>
                 data_value([DefaultVal EXCEPT !.data_type = dec.tag, !.bytes = q])
                   = dec.out
          /\ (dec.tag = <<117, 105, 49, 54>> /\ p[1] = 52 /\ p[2] = 18) =>
               out.v = <<4660>>

\* C16 witness: "si64" was decoded from a payload whose first eight bytes
\* are FF FE FD FC FB FA F9 F8 and whose later bytes are not zero: the value
\* is negative (top limb 0xF8F9 - 0x10000).
C16_Witness ==
    /\ Decoded
    /\ dec.tag = <<115, 105, 54, 52>>
    /\ dec.payload[1] = 255
    /\ dec.payload[9] = 65
    /\ dec.out.some
    /\ dec.out.v.v = <<65279, 64765, 64251, -1799>>

\* the tag of dec is "ch8*" and n bytes of its payload stand before the first
\* zero byte (n = 32 when there is none)
CharsPrefix(n) ==
    /\ dec.tag = <<99, 104, 56, 42>>
    /\ \A i \in 1..n : dec.payload[i] # 0
    /\ n = 32 \/ dec.payload[n + 1] = 0

\* C17 as claimed: for "ch8*" the decoded text is the payload bytes strictly
\* before the first zero byte, or all 32 bytes when there is none.
C17_CharsAreBytes ==
    Decoded =>
      \A n \in 0..32 : CharsPrefix(n) =>
        /\ dec.out.some
        /\ dec.out.v.kind = "Chars"
        /\ dec.out.v.v = SubSeq(dec.payload, 1, n)

\* C17 as amended: the decoded text is the lossy UTF-8 decoding of those
\* bytes: it is exactly those bytes when they are ASCII, and every
\* ill-formed piece is replaced by U+FFFD (EF BF BD), so "H", 0xFF, "I"
\* yields "H", U+FFFD, "I"; a leading zero byte yields the empty text and
\* "OK" followed by zeros yields "OK".
C17_CharsLossy ==
    Decoded =>
      \A n \in 0..32 : CharsPrefix(n) =>
        LET p == dec.payload
            text == dec.out.v.v
        IN  /\ dec.out.some
            /\ dec.out.v.kind = "Chars"
            /\ text = from_utf8_lossy(SubSeq(p, 1, n))
            /\ (\A i \in 1..n : p[i] < 128) => text = SubSeq(p, 1, n)
            /\ n = 0 => text = <<>>
            /\ (n = 2 /\ p[1] = 79 /\ p[2] = 75) => text = <<79, 75>>
            /\ (n = 3 /\ p[1] = 72 /\ p[2] = 255 /\ p[3] = 73) =>
                 text = <<72, 239, 191, 189, 73>>

\* C17 witness: "ch8*" with payload "H", 0xFF, "I", 0, ... was decoded to
\* "H", U+FFFD, "I".
C17_Witness ==
    /\ Decoded
    /\ CharsPrefix(3)
    /\ dec.payload[2] = 255
    /\ dec.out.some
    /\ dec.out.v.v = <<72, 239, 191, 189, 73>>

\* the first four payload bytes read the same in both directions
Palindrome == dec.payload[1] = dec.payload[4] /\ dec.payload[2] = dec.payload[3]

\* C18: for "flt " the decoded value holds two 32-bit patterns of the first
\* four payload bytes b0..b3: le = b0 + b1*2^8 + b2*2^16 + b3*2^24 and
\* be = b0*2^24 + b1*2^16 + b2*2^8 + b3; for 00 00 80 3F le is 0x3F800000
\* and be is 0x0000803F; the two are equal exactly when b0 = b3 and b1 = b2,
\* and only then is one number printed.
C18_BothByteOrders ==
    (Decoded /\ dec.tag = <<102, 108, 116, 32>>) =>
      LET p == dec.payload
          out == dec.out.v
      IN  /\ dec.out.some
          /\ out.kind = "F32"
          /\ out.le = <<p[1] + p[2] * 256, p[3] + p[4] * 256>>
          /\ out.be = <<p[4] + p[3] * 256, p[2] + p[1] * 256>>
          /\ (p[1] = 0 /\ p[2] = 0 /\ p[3] = 128 /\ p[4] = 63) =>
               /\ out.le = <<0, 16256>>
               /\ out.be = <<32831, 0>>
               /\ out.le # out.be
          /\ out.le = out.be <=> Palindrome
          /\ dec.pc = "shown" => (dec.text.form = "le" <=> Palindrome)

\* C18 witness: 00 00 80 3F was decoded and printed with both readings.
C18_Witness ==
    /\ dec.pc = "shown"
    /\ dec.tag = <<102, 108, 116, 32>>
    /\ SubSeq(dec.payload, 1, 4) = <<0, 0, 128, 63>>
    /\ dec.out.v.le = <<0, 16256>>
    /\ dec.out.v.be = <<32831, 0>>
    /\ dec.text.form = "le, be"

\* C19: for "ioft" the raw value is the little-endian unsigned 64-bit integer
\* of the first eight payload bytes; its integer part is raw >> 16, its
\* fractional numerator raw & 0xFFFF over the divisor 65536, and
\* integer part * 65536 + numerator = raw.  The number that is printed is
\* that reading itself whenever raw has at most 53 significant bits.
C19_FixedPoint ==
    (Decoded /\ dec.tag = <<105, 111, 102, 116>>) =>
      LET p == dec.payload
          raw == dec.out.v.v
      IN  /\ dec.out.some
          /\ dec.out.v.kind = "Ioft48_16"
          /\ raw = << p[1] + p[2] * 256, p[3] + p[4] * 256,
                      p[5] + p[6] * 256, p[7] + p[8] * 256 >>
          /\ dec.pc = "shown" =>
               /\ dec.text.form = "fixed"
               /\ dec.text.den = 65536
               /\ dec.text.part \in 0..65535
               /\ dec.text.part = p[1] + p[2] * 256
               /\ dec.text.whole
                    = <<p[3] + p[4] * 256, p[5] + p[6] * 256, p[7] + p[8] * 256>>
               /\ <<dec.text.part>> \o dec.text.whole = raw
               /\ raw[4] < 32 =>
                    (dec.text.int = dec.text.whole /\ dec.text.num = dec.text.part)

\* C19 witness: "ioft" with first bytes 01 02 03 04 07 07 07 07 was decoded
\* and printed: integer part 0x070707070403, numerator 0x0201; of the 59 bits
\* of raw the f64 sum keeps 53, so the number printed has numerator 0x0200.
C19_Witness ==
    /\ dec.pc = "shown"
    /\ dec.tag = <<105, 111, 102, 116>>
    /\ SubSeq(dec.payload, 1, 8) = <<1, 2, 3, 4, 7, 7, 7, 7>>
    /\ dec.text.part = 513
    /\ dec.text.whole = <<1027, 1799, 1799>>
    /\ dec.text.int = <<1027, 1799, 1799>>
    /\ dec.text.num = 512

----------------------------------------------------------------------------
(* The enumerator is single-pass.                                          *)

\* the cursor of an enumerator stays between 0 and its count
CursorInRange ==
    \A id \in IterIds :
      iters[id].alive =>
        /\ 0 <= iters[id].current
        /\ iters[id].current <= iters[id].total_count

\* a pull returns the end of the sequence exactly when the cursor stood at
\* the count, and then it sends nothing
EndExactlyAtCount ==
    last.op = "next" =>
      /\ last.res.tag = "None" <=> last.index = iters[last.it].total_count
      /\ last.res.tag = "None" => last.reqs = <<>>

\* the cursor of an enumerator never moves back, and a pull of an enumerator
\* whose cursor stands at the count returns the end of the sequence, sends
\* nothing and leaves the enumerator as it is
NeverBackNeverAgain ==
    \A id \in IterIds :
      (iters[id].alive /\ iters'[id].alive) =>
        /\ iters'[id].current >= iters[id].current
        /\ ( /\ iters[id].current = iters[id].total_count
             /\ last'.op = "next"
             /\ last'.it = id )
           => /\ last'.res.tag = "None"
              /\ last'.reqs = <<>>
              /\ iters'[id] = iters[id]

\* C21: the enumerator is single-pass and cannot be restarted: its cursor
\* satisfies 0 <= current <= total_count in every reachable state and never
\* decreases; once a pull has returned the end of the sequence, every later
\* pull returns the end of the sequence too and sends no request.
C21_SinglePass == [](CursorInRange /\ EndExactlyAtCount) /\ [][NeverBackNeverAgain]_vars

\* C21 witness: an enumerator of two keys that had handed out both items was
\* pulled again after it had already returned the end: it returned the end
\* once more and sent nothing.
C21_Witness ==
    /\ last.op = "next"
    /\ last.res.tag = "None"
    /\ last.reqs = <<>>
    /\ iters[last.it].total_count = 2
    /\ iters[last.it].current = 2
    /\ iters[last.it].yielded = 2

----------------------------------------------------------------------------
(* The WRITE_BYTES request of write_key.                                   *)

\* the j-th request of the last call is the write of the caller's bytes
WriteRequestOf(j) ==
    /\ last.reqs[j].data8 = 6
    /\ last.reqs[j].key = FromBeBytes(last.key)
    /\ last.reqs[j].key_info.data_size = Len(last.value)
    /\ Len(last.reqs[j].bytes) = 32
    /\ \A i \in 1..32 :
         last.reqs[j].bytes[i] = IF i <= Len(last.value) THEN last.value[i] ELSE 0

\* the first two requests of the last call are a KEYINFO and a READ_BYTES for
\* the caller's key and both round trips succeeded
ReadBeforeWrite ==
    /\ last.reqs[1].data8 = SMC_CMD_READ_KEYINFO
    /\ last.reqs[1].key = FromBeBytes(last.key)
    /\ last.reqs[2].data8 = SMC_CMD_READ_BYTES
    /\ last.reqs[2].key = FromBeBytes(last.key)
    /\ Answered(2, 1)

\* C23: every WRITE_BYTES request of write_key(key, bytes) has command 6, the
\* key, key_info.data_size = the length of bytes and a 32-byte payload that is
\* bytes followed by zeros; it is the third request of the call, after a
\* KEYINFO and a READ_BYTES request for the same key that both succeeded.
C23_WriteRequest ==
    last.op = "write_key" =>
      \A j \in 1..Len(last.reqs) :
        last.reqs[j].data8 = SMC_CMD_WRITE_BYTES =>
          /\ j = 3
          /\ WriteRequestOf(j)
          /\ ReadBeforeWrite

\* C23 witness: write_key(b"ABCD", 01 02 03 04) sent its WRITE_BYTES request,
\* with 28 zero bytes after the four of the caller.
C23_Witness ==
    /\ last.op = "write_key"
    /\ last.key = KEY_ABCD
    /\ last.value = <<1, 2, 3, 4>>
    /\ Len(last.reqs) = 3
    /\ last.reqs[3].data8 = SMC_CMD_WRITE_BYTES
    /\ last.reqs[3].bytes[4] = 4
    /\ last.reqs[3].bytes[5] = 0

----------------------------------------------------------------------------
(* The result field of the responses other than KEYINFO.                   *)

\* the n-th round trip of the last call took place and the channel call
\* returned success
Returned(n) == Len(last.resps) >= n /\ last.resps[n].status = KERN_SUCCESS

\* write_key returns Ok when its WRITE_BYTES round trip returns, whatever the
\* result of the response
WriteResultIgnored ==
    (last.op = "write_key" /\ Len(last.reqs) = 3 /\ Returned(3))
    => last.res.tag = "Ok"

\* read_key returns Ok, with the payload of the response, when its READ_BYTES
\* round trip returns, whatever the result of the response
ReadResultIgnored ==
    (last.op = "read_key" /\ Len(last.reqs) = 2 /\ Returned(2))
    => /\ last.res.tag = "Ok"
       /\ last.res.val.bytes = last.resps[2].out.bytes

\* a pull (and an iteration of list_all_values) whose READ_INDEX round trip
\* returns goes on to KEYINFO for the key of the response, whatever its result
IndexResultIgnored ==
    ( /\ last.op \in {"next", "list_all_values"}
      /\ Len(last.reqs) >= 1
      /\ last.reqs[1].data8 = SMC_CMD_READ_INDEX
      /\ Returned(1) )
    => /\ Len(last.reqs) >= 2
       /\ last.reqs[2].data8 = SMC_CMD_READ_KEYINFO
       /\ last.reqs[2].key = last.resps[1].out.key

\* C28: only the result of the KEYINFO response is looked at: when the channel
\* call succeeds, write_key returns Ok whatever the result of the WRITE_BYTES
\* response (132 too), read_key returns Ok whatever the result of the
\* READ_BYTES response, and an enumerator step goes on to KEYINFO whatever the
\* result of the READ_INDEX response.
C28_OnlyKeyInfoResultInspected ==
    WriteResultIgnored /\ ReadResultIgnored /\ IndexResultIgnored

\* C28 witness: a write_key whose WRITE_BYTES response carried result 132
\* returned Ok.
C28_Witness ==
    /\ last.op = "write_key"
    /\ Len(last.reqs) = 3
    /\ Returned(3)
    /\ last.resps[3].out.result = RESULT_NOT_SUPPORTED
    /\ last.res.tag = "Ok"

----------------------------------------------------------------------------
(* Nothing is retried.                                                     *)

\* the j-th round trip of the last call failed: the channel call returned an
\* error, or the response to a KEYINFO request carried the sentinel
FailedRoundTrip(j) ==
    \/ last.resps[j].status # KERN_SUCCESS
    \/ /\ last.reqs[j].data8 = SMC_CMD_READ_KEYINFO
       /\ last.resps[j].out.result = RESULT_NOT_SUPPORTED

\* the most requests one call of each operation sends
MostRequests ==
    [op \in {"get_key_info", "read_key", "write_key", "next"} |->
       CASE op = "get_key_info" -> 1
         [] op = "read_key" -> 2
         [] OTHER -> 3]

\* C24: in get_key_info, read_key, write_key and one enumerator step a failed
\* round trip (a channel error, or result 132 in answer to KEYINFO) is the
\* last round trip of the operation and makes it return an error;
\* get_key_info sends exactly 1 request, read_key at most 2, write_key and an
\* enumerator step at most 3, and no opcode is sent twice by one operation.
C24_NoRetry ==
    last.op \in DOMAIN MostRequests =>
      /\ Len(last.resps) = Len(last.reqs)
      /\ \A j \in 1..Len(last.reqs) :
           FailedRoundTrip(j) => (j = Len(last.reqs) /\ last.res.tag = "Err")
      /\ Len(last.reqs) <= MostRequests[last.op]
      /\ last.op = "get_key_info" => Len(last.reqs) = 1
      /\ \A j, k \in 1..Len(last.reqs) :
           last.reqs[j].data8 = last.reqs[k].data8 => j = k

\* C24 witness: an enumerator step whose KEYINFO request was answered with
\* result 132 ended there with an error, after two requests.
C24_Witness ==
    /\ last.op = "next"
    /\ Len(last.reqs) = 2
    /\ last.resps[2].status = KERN_SUCCESS
    /\ last.resps[2].out.result = RESULT_NOT_SUPPORTED
    /\ last.res.tag = "Err"

----------------------------------------------------------------------------
(* Where the fields of a returned value come from.                         *)

\* the value made of key, of the key_info of response i of the last call and
\* of the payload of its response b
Assembled(key, i, b) ==
    [ key |-> key,
      data_size |-> last.resps[i].out.key_info.data_size,
      data_type |-> ToBeBytes(last.resps[i].out.key_info.data_type),
      bytes |-> last.resps[b].out.bytes ]

\* read_key: the caller's key, the KEYINFO and READ_BYTES responses of the call
ReadKeyAssembled ==
    (last.op = "read_key" /\ last.res.tag = "Ok")
    => /\ Len(last.resps) = 2
       /\ last.res.val = Assembled(last.key, 1, 2)

\* an enumerator step: the key of the READ_INDEX response, then the same
StepAssembled ==
    (last.op = "next" /\ last.res.tag = "Ok")
    => /\ Len(last.resps) = 3
       /\ last.reqs[1].data32 = last.index
       /\ last.reqs[2].key = last.resps[1].out.key
       /\ last.reqs[3].key = last.resps[1].out.key
       /\ last.res.val = Assembled(ToBeBytes(last.resps[1].out.key), 2, 3)

\* list_all_values: an iteration whose three round trips succeeded appends the
\* value of its own responses, any other iteration appends nothing
ListAssembled ==
    (last.op = "list_all_values" /\ Sent(SMC_CMD_READ_INDEX)) =>
      /\ list.values = list.expected
      /\ Described(last.resps) # <<>> =>
           /\ list.values # <<>>
           /\ list.values[Len(list.values)]
                = Assembled(ToBeBytes(last.resps[1].out.key), 2, 3)
      /\ list.res.tag = "Ok" => list.res.val = list.values

\* C27: every value returned by read_key, by an enumerator step or by
\* list_all_values has the key named in the requests (the caller's key, or
\* the key the READ_INDEX response gave for the index), the data_size and
\* data_type of the KEYINFO response of the same operation and the payload of
\* the READ_BYTES response of the same operation; nothing is carried over
\* from an earlier operation.
C27_AssembledFromOwnResponses ==
    ReadKeyAssembled /\ StepAssembled /\ ListAssembled

\* C27 witness: the second step of an enumerator returned key ABCD with
\* declared size 1, type "ui8 " and the mixed payload, as its own three
\* responses said.
C27_Witness ==
    /\ last.op = "next"
    /\ last.index = 1
    /\ last.res.tag = "Ok"
    /\ last.res.val.key = KEY_ABCD
    /\ last.res.val.data_size = 1
    /\ last.res.val.data_type = TAG_UI8
    /\ last.res.val.bytes = MixedPayload

----------------------------------------------------------------------------
(* Fields a request carries beyond those its opcode needs.                 *)

\* the fields of a request that no opcode needs are zero
ReservedZero(req) ==
    /\ req.vers = 0
    /\ req.plimit_data = 0
    /\ req.result = 0
    /\ req.status = 0
    /\ req.key_info.data_attributes = 0

\* every field of a request that its opcode does not need is zero: KEYINFO
\* needs the key; READ_BYTES the key, key_info.data_size and
\* key_info.data_type; WRITE_BYTES the key, key_info.data_size and the
\* payload; READ_INDEX the index
OnlyRequiredFields(req) ==
    /\ ReservedZero(req)
    /\ req.data8 # SMC_CMD_READ_INDEX => req.data32 = 0
    /\ req.data8 # SMC_CMD_WRITE_BYTES => req.bytes = ZeroBytes
    /\ req.data8 = SMC_CMD_READ_INDEX => req.key = 0
    /\ req.data8 \in {SMC_CMD_READ_INDEX, SMC_CMD_READ_KEYINFO}
         => req.key_info = DefaultKeyInfo

\* C22: in every request sent by any operation every field the opcode of the
\* request does not need is zero; the index is zero in every KEYINFO and
\* READ_BYTES request, those of an enumerator step included, and the payload
\* is all zero in every request but WRITE_BYTES.
C22_NoStaleFields ==
    \A j \in 1..Len(last.reqs) : OnlyRequiredFields(last.reqs[j])

----------------------------------------------------------------------------
(* Round trips in flight.                                                  *)

\* the threads that are inside a method of the IOService
Inside == {t \in ThreadIds : threads[t].pc # "idle"}

\* the places in the channel of the round trips of thread t
InFlightOf(t) == {i \in 1..Len(channel) : channel[i].thread = t}

\* C25 as claimed: at most one request is in flight on the channel at any
\* time, however the callers that hold the engine invoke its operations.
C25_OneInFlight == Len(channel) <= 1

\* C25 as amended: a thread has at most one round trip in flight, since it
\* starts the next only after the previous one has returned, and the channel
\* never holds more round trips than there are threads inside a method: at
\* most one while the callers keep to one call at a time.  The engine itself
\* does not serialize its callers.
C25_OneInFlightPerCaller ==
    /\ \A t \in ThreadIds :
         /\ Cardinality(InFlightOf(t)) <= 1
         /\ InFlightOf(t) # {} <=> threads[t].pc = "flight"
    /\ Len(channel) <= Cardinality(Inside)
    /\ Cardinality(Inside) <= 1 => Len(channel) <= 1

\* C25 witness: the READ_BYTES request of one thread's read_key and the
\* WRITE_BYTES request of the other thread's write_key are in flight together.
C25_Witness ==
    /\ Len(channel) = 2
    /\ channel[1].thread # channel[2].thread
    /\ channel[1].req.data8 = SMC_CMD_READ_BYTES
    /\ channel[2].req.data8 = SMC_CMD_WRITE_BYTES

----------------------------------------------------------------------------
(* What other operations leave of an enumerator.                           *)

\* this step is a pull of enumerator id
PullOf(id) == last'.op = "next" /\ last'.it = id

\* a step that is not a pull of an enumerator leaves the enumerator as it
\* was: its cursor, its count and the number of items it has handed out
OthersLeaveEnumerator ==
    \A id \in IterIds :
      (iters[id].alive /\ ~PullOf(id)) => iters'[id] = iters[id]

\* a pull of an enumerator that is not at its end requests the index that
\* follows the one of its previous pull: the number of pulls it has made
PullRequestsNextIndex ==
    \A id \in IterIds :
      (iters[id].alive /\ PullOf(id) /\ last'.res.tag # "None") =>
        /\ last'.reqs[1].data8 = SMC_CMD_READ_INDEX
        /\ last'.reqs[1].data32 = iters[id].yielded
        /\ iters'[id].current = iters[id].current + 1
        /\ iters'[id].yielded = iters[id].yielded + 1
        /\ iters'[id].total_count = iters[id].total_count

\* C26: get_key_info, read_key, write_key, keys_count, list_all_values and
\* the construction and the pulls of a second enumerator of the same engine,
\* interleaved between two pulls of an enumerator, leave its cursor and its
\* count unchanged, so that its next pull requests the index right after
\* the one of its previous pull.
C26_OthersLeaveCursor == [][OthersLeaveEnumerator /\ PullRequestsNextIndex]_vars

\* C26 witness: the second pull of the first enumerator requested index 1
\* after a second enumerator had been constructed and pulled twice and
\* list_all_values had run on the same engine.
C26_Witness ==
    /\ last.op = "next"
    /\ last.it = "it1"
    /\ last.reqs # <<>>
    /\ last.reqs[1].data32 = 1
    /\ iters["it1"].current = 2
    /\ iters["it2"].alive
    /\ iters["it2"].current = 2
    /\ list.pc = "done"

============================================================================
